---- MODULE Spec2Model ----
(***************************************************************************)
(* my_todoo: the task aggregation service (src/api/taskService.ts), its    *)
(* two connectors (src/api/notion.ts, src/api/todoist.ts), the             *)
(* normalizers (src/api/unified.ts) and the task filter (filterTasks.ts),  *)
(* as a state machine.                                                     *)
(*                                                                         *)
(* The program runs on the JavaScript event loop: one event (an incoming   *)
(* request, a provider's answer) is handled to completion, through every   *)
(* promise continuation it wakes, before the next event is taken.  The     *)
(* model follows that: `inbox` holds the answer being handled and `done`   *)
(* the result being handed to the HTTP layer, and while either is set no   *)
(* other event is taken.                                                   *)
(***************************************************************************)
EXTENDS Integers, Sequences, FiniteSets, TLC

VARIABLES
    now,      \* Date.now(), in ms
    cache,    \* taskService.ts: let cache: TaskCache | null
    env,      \* process.env: the three variables the connectors read
    client,   \* todoist.ts: let _client: TodoistApi | null
    call,     \* per request: the activation of the service function it runs
    conn,     \* per request and provider: the connector promise it awaits
    inbox,    \* the provider answer the event loop is handling, or None
    done,     \* the result the service function just settled with, or None
    written,  \* history: a write has returned successfully and getAllTasks was not called since
    stale     \* history: the requests whose getAllTasks call held a settled fetch of a provider
              \* when a write to that provider returned

vars == <<now, cache, env, client, call, conn, inbox, done, written, stale>>

----------------------------------------------------------------------------
(* Program constants *)

CACHE_TTL_MS == 30000
NOTION_MAX_RETRIES == 5
NOTION_BASE_DELAY_MS == 400
TODOIST_MAX_RETRIES == 5
TODOIST_BASE_DELAY_MS == 500

(* Bounds of the model *)

\* the clock stops here
MaxNow == 30000

----------------------------------------------------------------------------
(* JavaScript values.  Provider records are untyped, so a value carries    *)
(* its type; an object is a function from its own keys to values.          *)

Undefined == [t |-> "undefined"]
Null == [t |-> "null"]
Str(s) == [t |-> "string", v |-> s]
Num(n) == [t |-> "number", v |-> n]
Bool(b) == [t |-> "boolean", v |-> b]
Arr(s) == [t |-> "array", v |-> s]
Obj(f) == [t |-> "object", v |-> f]
NaN == [t |-> "number", nan |-> TRUE]
\* The number n + tenths / 10, for tenths in 1..9: a number that is no integer
Frac(n, tenths) == [t |-> "number", v |-> n, frac |-> tenths]
EmptyObj == Obj(<<>>)

None == [t |-> "none"]

IsNullish(x) == x.t \in {"undefined", "null"}

\* a ?? b
Coalesce(a, b) == IF IsNullish(a) THEN b ELSE a

\* IsFalsy taking only null and undefined for falsy
IsFalsyWhenNullish(x) == IsNullish(x)

\* !x
IsFalsy(x) ==
    \/ IsNullish(x)
    \/ x.t = "string" /\ x.v = ""
    \/ x.t = "number" /\ ("nan" \in DOMAIN x \/ (x.v = 0 /\ "frac" \notin DOMAIN x))
    \/ x.t = "boolean" /\ ~x.v

\* a || b
OrElse(a, b) == IF IsFalsy(a) THEN b ELSE a

\* o[k] for a non-nullish o (the callers below never index a nullish value)
Get(o, k) == IF o.t = "object" /\ k \in DOMAIN o.v THEN o.v[k] ELSE Undefined

\* o?.k
GetOpt(o, k) == IF IsNullish(o) THEN Undefined ELSE Get(o, k)

\* 'k' in o, for an object o
HasKey(o, k) == o.t = "object" /\ k \in DOMAIN o.v

IsArray(x) == x.t = "array"

----------------------------------------------------------------------------
(* Strings and dates *)

\* String(x), as a template literal or Array.prototype.join converts x
ToStr(x) ==
    CASE x.t = "string" -> x.v
      [] x.t = "undefined" -> "undefined"
      [] x.t = "null" -> "null"
      [] x.t = "number" -> IF "nan" \in DOMAIN x THEN "NaN"
                           ELSE IF "frac" \in DOMAIN x THEN ToString(x.v) \o "." \o ToString(x.frac)
                           ELSE ToString(x.v)
      [] x.t = "boolean" -> IF x.v THEN "true" ELSE "false"
      [] OTHER -> "[object Object]"

Pad2(n) == IF n < 10 THEN "0" \o ToString(n) ELSE ToString(n)

Pad3(n) == IF n < 10 THEN "00" \o ToString(n) ELSE IF n < 100 THEN "0" \o ToString(n) ELSE ToString(n)

\* new Date(ms).toISOString(), for an instant of 1970-01-01
toISOString(ms) ==
    "1970-01-01T" \o Pad2(ms \div 3600000) \o ":" \o Pad2((ms \div 60000) % 60)
        \o ":" \o Pad2((ms \div 1000) % 60) \o "." \o Pad3(ms % 1000) \o "Z"

\* The instants the providers' records and the clock can name
KnownInstants == {1000, 2000, 3000} \cup {a * (CACHE_TTL_MS - 1) + b * CACHE_TTL_MS : a, b \in 0..2}

IsoOf == [m \in KnownInstants |-> toISOString(m)]

\* Other spellings of an instant that Date accepts
OtherSpellings == {<<"1970-01-01T00:00:02Z", 2000>>, <<"1970-01-01T01:00:03.000+01:00", 3000>>}

\* Date.parse(s)
DateParse(s) ==
    IF \E m \in KnownInstants : IsoOf[m] = s
    THEN Num(CHOOSE m \in KnownInstants : IsoOf[m] = s)
    ELSE IF \E o \in OtherSpellings : o[1] = s
    THEN Num((CHOOSE o \in OtherSpellings : o[1] = s)[2])
    ELSE NaN

\* new Date(x).getTime()
DateGetTime(x) ==
    CASE x.t = "string" -> DateParse(x.v)
      [] x.t = "number" -> x
      [] x.t = "null" -> Num(0)
      [] x.t = "boolean" -> Num(IF x.v THEN 1 ELSE 0)
      [] OTHER -> NaN

\* a - b on numbers
Minus(a, b) == IF "nan" \in DOMAIN a \/ "nan" \in DOMAIN b THEN NaN ELSE Num(a.v - b.v)

UpperLetters == "ABCDEFGHIJKLMNOPQRSTUVWXYZ"

LowerLetters == "abcdefghijklmnopqrstuvwxyz"

LowerChar(c) ==
    IF \E i \in 1..26 : SubSeq(UpperLetters, i, i) = c
    THEN LET i == CHOOSE j \in 1..26 : SubSeq(UpperLetters, j, j) = c IN SubSeq(LowerLetters, i, i)
    ELSE c

RECURSIVE toLowerCase(_)
\* s.toLowerCase()
toLowerCase(s) ==
    IF s = "" THEN "" ELSE LowerChar(SubSeq(s, 1, 1)) \o toLowerCase(SubSeq(s, 2, Len(s)))

IsSpace(c) == c \in {" ", "\t", "\n"}

RECURSIVE trimStart(_)
trimStart(s) ==
    IF s # "" /\ IsSpace(SubSeq(s, 1, 1)) THEN trimStart(SubSeq(s, 2, Len(s))) ELSE s

RECURSIVE trimEnd(_)
trimEnd(s) ==
    IF s # "" /\ IsSpace(SubSeq(s, Len(s), Len(s))) THEN trimEnd(SubSeq(s, 1, Len(s) - 1)) ELSE s

\* trim leaving the blanks at the end
trimLeading(s) == trimStart(s)

\* s.trim()
trim(s) == trimEnd(trimStart(s))

----------------------------------------------------------------------------
(* src/api/unified.ts: the normalizers.  A normalizer either returns a     *)
(* task or throws a TypeError (reading a property of null or undefined,    *)
(* calling a string method on a value that has none).                      *)

Returned(v) == [thrown |-> FALSE, v |-> v]

Thrown == [thrown |-> TRUE, v |-> "TypeError"]

RECURSIVE joinPlain(_)
\* prop.map((rt) => rt.plain_text ?? '').join('') on the elements of an array
joinPlain(elems) ==
    IF elems = <<>> THEN Returned("")
    ELSE IF IsNullish(Head(elems)) THEN Thrown
    ELSE LET rest == joinPlain(Tail(elems))
             piece == Coalesce(Get(Head(elems), "plain_text"), Str(""))
         IN  IF rest.thrown THEN Thrown ELSE Returned(ToStr(piece) \o rest.v)

richTextToPlain(prop) ==
    IF ~IsArray(prop) THEN Returned("") ELSE joinPlain(prop.v)

\* mapNotionStatus handing on a name it does not know
mapNotionStatusKeepsText(raw) ==
    IF IsFalsy(raw) THEN Returned("todo")
    ELSE IF raw.t # "string" THEN Thrown
    ELSE LET lower == trim(toLowerCase(raw.v))
         IN  IF lower \in {"done", "complete", "completed"} THEN Returned("done")
             ELSE IF lower \in {"in progress", "in_progress", "doing", "started"} THEN Returned("in_progress")
             ELSE Returned(lower)

mapNotionStatus(raw) ==
    IF IsFalsy(raw) THEN Returned("todo")
    ELSE IF raw.t # "string" THEN Thrown
    ELSE LET lower == trim(toLowerCase(raw.v))
         IN  IF lower \in {"done", "complete", "completed"} THEN Returned("done")
             ELSE IF lower \in {"in progress", "in_progress", "doing", "started"} THEN Returned("in_progress")
             ELSE Returned("todo")

mapNotionPriority(raw) ==
    IF IsFalsy(raw) THEN Returned("medium")
    ELSE IF raw.t # "string" THEN Thrown
    ELSE LET lower == trim(toLowerCase(raw.v))
         IN  IF lower \in {"urgent", "critical"} THEN Returned("urgent")
             ELSE IF lower \in {"high"} THEN Returned("high")
             ELSE IF lower \in {"low"} THEN Returned("low")
             ELSE Returned("medium")

RECURSIVE mapNames(_)
\* multiSelect.map((s) => s.name) on the elements of an array
mapNames(elems) ==
    IF elems = <<>> THEN Returned(<<>>)
    ELSE IF IsNullish(Head(elems)) THEN Thrown
    ELSE LET rest == mapNames(Tail(elems))
         IN  IF rest.thrown THEN Thrown ELSE Returned(<<Get(Head(elems), "name")>> \o rest.v)

\* props[a] ?? props[b] ?? props[c] ?? {}
Prop3(props, a, b, c) == Coalesce(Get(props, a), Coalesce(Get(props, b), Coalesce(Get(props, c), EmptyObj)))

\* props[a] ?? props[b] ?? {}
Prop2(props, a, b) == Coalesce(Get(props, a), Coalesce(Get(props, b), EmptyObj))

\* notionPageToTask(page), called when Date.now() is t
notionPageToTask(page, t) ==
    LET props == Coalesce(Get(page, "properties"), EmptyObj)
        titleProp == Prop3(props, "Name", "Title", "title")
        titlePlain == richTextToPlain(Get(titleProp, "title"))
        descProp == Prop2(props, "Description", "description")
        descPlain == richTextToPlain(Get(descProp, "rich_text"))
        statusProp == Prop2(props, "Status", "status")
        status == mapNotionStatus(GetOpt(Get(statusProp, "status"), "name"))
        priorityProp == Prop2(props, "Priority", "priority")
        priority == mapNotionPriority(GetOpt(Get(priorityProp, "select"), "name"))
        dueProp == Prop3(props, "Due", "Due Date", "due_date")
        dueDate == Coalesce(GetOpt(Get(dueProp, "date"), "start"), Undefined)
        tagsProp == Prop3(props, "Tags", "Labels", "tags")
        multiSelect == Get(tagsProp, "multi_select")
        labels == IF IsArray(multiSelect) THEN mapNames(multiSelect.v) ELSE Returned(<<>>)
        projectProp == Prop2(props, "Project", "project")
        projectName == Coalesce(GetOpt(Get(projectProp, "select"), "name"), Undefined)
        createdAt == Coalesce(Get(page, "created_time"), Str(toISOString(t)))
        updatedAt == Coalesce(Get(page, "last_edited_time"), createdAt)
    IN  IF titlePlain.thrown \/ descPlain.thrown \/ status.thrown \/ priority.thrown \/ labels.thrown
        THEN Thrown
        ELSE Returned([
            id |-> "notion-" \o ToStr(Get(page, "id")),
            source |-> "notion",
            sourceId |-> Get(page, "id"),
            title |-> OrElse(Str(titlePlain.v), Str("Untitled")),
            description |-> OrElse(Str(descPlain.v), Undefined),
            status |-> status.v,
            priority |-> priority.v,
            dueDate |-> dueDate,
            createdAt |-> createdAt,
            updatedAt |-> updatedAt,
            labels |-> IF IsArray(multiSelect) THEN Arr(labels.v) ELSE Undefined,
            projectName |-> projectName])

\* mapTodoistPriority looking at the whole part of a number only
mapTodoistPriorityTruncating(p) ==
    IF p.t = "number" /\ "nan" \notin DOMAIN p
    THEN CASE p.v = 4 -> "urgent" [] p.v = 3 -> "high" [] p.v = 2 -> "medium" [] OTHER -> "low"
    ELSE "low"

\* p is compared with === against the numbers 4, 3, 2
mapTodoistPriority(p) ==
    IF p.t = "number" /\ "nan" \notin DOMAIN p /\ "frac" \notin DOMAIN p
    THEN CASE p.v = 4 -> "urgent" [] p.v = 3 -> "high" [] p.v = 2 -> "medium" [] OTHER -> "low"
    ELSE "low"

\* todoistItemToTask giving the task the provider's id as it is
todoistItemToTaskBareId(item, t) ==
    IF IsNullish(item) THEN Thrown ELSE
    LET id == Coalesce(Get(item, "id"), Str(""))
        rawLabels == Get(item, "labels")
        createdAt == Coalesce(Get(item, "createdAt"), Str(toISOString(t)))
        due == Get(item, "due")
    IN  Returned([
            id |-> ToStr(id),
            source |-> "todoist",
            sourceId |-> id,
            title |-> Coalesce(Get(item, "content"), Str("Untitled")),
            description |-> OrElse(Get(item, "description"), Undefined),
            status |-> IF IsFalsy(Coalesce(Get(item, "isCompleted"), Bool(FALSE))) THEN "todo" ELSE "done",
            priority |-> mapTodoistPriority(Get(item, "priority")),
            dueDate |-> Coalesce(GetOpt(due, "date"), Undefined),
            createdAt |-> createdAt,
            updatedAt |-> createdAt,
            labels |-> IF IsArray(rawLabels) /\ Len(rawLabels.v) > 0 THEN rawLabels ELSE Undefined,
            projectName |-> Coalesce(Get(item, "projectName"), Undefined)])

\* todoistItemToTask(item), called when Date.now() is t
todoistItemToTask(item, t) ==
    IF IsNullish(item) THEN Thrown ELSE
    LET id == Coalesce(Get(item, "id"), Str(""))
        rawLabels == Get(item, "labels")
        createdAt == Coalesce(Get(item, "createdAt"), Str(toISOString(t)))
        due == Get(item, "due")
    IN  Returned([
            id |-> "todoist-" \o ToStr(id),
            source |-> "todoist",
            sourceId |-> id,
            title |-> Coalesce(Get(item, "content"), Str("Untitled")),
            description |-> OrElse(Get(item, "description"), Undefined),
            status |-> IF IsFalsy(Coalesce(Get(item, "isCompleted"), Bool(FALSE))) THEN "todo" ELSE "done",
            priority |-> mapTodoistPriority(Get(item, "priority")),
            dueDate |-> Coalesce(GetOpt(due, "date"), Undefined),
            createdAt |-> createdAt,
            updatedAt |-> createdAt,
            labels |-> IF IsArray(rawLabels) /\ Len(rawLabels.v) > 0 THEN rawLabels ELSE Undefined,
            projectName |-> Coalesce(Get(item, "projectName"), Undefined)])

----------------------------------------------------------------------------
(* The providers: what their APIs can answer.                              *)

\* An optional number is the set of its values: {} when the property is absent
HttpError(httpStatusCode, status) ==
    [name |-> "HttpError", message |-> "request failed", httpStatusCode |-> httpStatusCode, status |-> status]

Error(message) == [name |-> "Error", message |-> message, httpStatusCode |-> {}, status |-> {}]

TypeError == [name |-> "TypeError", message |-> "not a function or nullish", httpStatusCode |-> {}, status |-> {}]

\* The Notion SDK's errors carry `status`
NotionErrors == {HttpError({}, {429}), HttpError({}, {500}), HttpError({}, {503}), HttpError({}, {404}), HttpError({}, {})}

\* The Todoist SDK's errors carry `httpStatusCode`; a fetch-level error may carry `status`
TodoistErrors ==
    {HttpError({429}, {}), HttpError({500}, {}), HttpError({404}, {}), HttpError({}, {503}), HttpError({400}, {429}),
     HttpError({}, {})}

\* Errors that neither helper retries
FatalErrors == {HttpError({}, {404}), HttpError({404}, {}), HttpError({}, {})}

Iso(ms) == Str(IsoOf[ms])

RichText(a, b) == Arr(<<Obj([plain_text |-> Str(a)]), Obj([plain_text |-> Str(b)])>>)

PageN1 ==
    Obj([object |-> Str("page"), id |-> Str("n1"), created_time |-> Iso(1000), last_edited_time |-> Iso(2000),
         properties |-> Obj([Name |-> Obj([title |-> RichText("Buy ", "milk")]),
                             Status |-> Obj([status |-> Obj([name |-> Str(" In Progress")])]),
                             Priority |-> Obj([select |-> Obj([name |-> Str("Critical")])])])])

PageN2 ==
    Obj([object |-> Str("page"), id |-> Str("n2"), created_time |-> Iso(1000), last_edited_time |-> Iso(3000),
         properties |-> EmptyObj])

\* edited at the instant of PageN1's last edit, spelled differently
PageN3 ==
    Obj([object |-> Str("page"), id |-> Str("n3"), created_time |-> Iso(1000),
         last_edited_time |-> Str("1970-01-01T00:00:02Z"),
         properties |-> Obj([Status |-> Obj([status |-> Obj([name |-> Str("Done")])])])])

\* entries a query result can hold that are no page records
NotPage == Obj([object |-> Str("database"), id |-> Str("d1"), properties |-> EmptyObj])

PartialPage == Obj([object |-> Str("page"), id |-> Str("n9")])

QueryResponse(results, has_more, next_cursor) ==
    Obj([results |-> Arr(results), has_more |-> Bool(has_more), next_cursor |-> next_cursor])

\* What databases/{id}/query can answer to a request body
NotionQueryAnswers(body) ==
    IF ~HasKey(body, "start_cursor")
    THEN {QueryResponse(<<PageN1, NotPage, PageN2>>, FALSE, Null),
          QueryResponse(<<PageN3, PartialPage>>, TRUE, Str("c2")),
          QueryResponse(<<PageN1, NotPage, PageN2>>, TRUE, Null)}
    ELSE IF Get(body, "start_cursor") = Str("c2")
    THEN {QueryResponse(<<PageN2, PageN1>>, FALSE, Null)}
    ELSE {QueryResponse(<<>>, FALSE, Null)}

\* What pages.create and pages.update can answer: the page as the provider now holds it
NotionPageAnswers(id) ==
    {Obj([object |-> Str("page"), id |-> id, created_time |-> Iso(1000), last_edited_time |-> Iso(3000),
          properties |-> Obj([Status |-> Obj([status |-> Obj([name |-> Str(n)])])])]) : n \in {"Done", "To Do"}}

ItemT1 == Obj([id |-> Str("t1"), content |-> Str("Call"), priority |-> Num(4), createdAt |-> Iso(2000)])

ItemT2 == Obj([id |-> Str("t2"), content |-> Str("Pay"), isCompleted |-> Bool(TRUE), createdAt |-> Iso(1000),
               labels |-> Arr(<<>>)])

\* What getTasks can answer: an array, or an object that may hold `results`
TodoistTasksAnswers == {Arr(<<ItemT1, ItemT2>>), Obj([results |-> Arr(<<ItemT2>>)]), EmptyObj}

\* What addTask and updateTask can answer: the item as the provider now holds it
TodoistItemAnswers(id) ==
    {Obj([id |-> id, content |-> Str("Call"), isCompleted |-> Bool(c), createdAt |-> Iso(2000)]) : c \in BOOLEAN}

----------------------------------------------------------------------------
(* Connector promises.  A pending connector awaits one withRetry call:     *)
(* `api` and `arg` are the request its fn sends, `attempt` and `delay`     *)
(* withRetry's loop variable and last backoff, `acc` what the connector    *)
(* holds across its awaits, `wr` how withRetry settled (None until then).  *)

Reqs == {"r1", "r2"}

Providers == {"notion", "todoist"}

NoConn == [st |-> "none"]

Pending(fn, api, arg, acc) ==
    [st |-> "pending", fn |-> fn, api |-> api, arg |-> arg, attempt |-> 0, delay |-> 0, acc |-> acc, wr |-> None]

Fulfilled(v) == [st |-> "fulfilled", value |-> v]

Rejected(e) == [st |-> "rejected", err |-> e]

IsSettled(c) == c.st \in {"fulfilled", "rejected"}

\* An answer of the provider to the request of a pending connector
AnswerOk(v) == [ok |-> TRUE, v |-> v]

AnswerErr(e) == [ok |-> FALSE, v |-> e]

\* Pow2 as a backoff that grows by one base delay a retry
Pow2Linear(n) == n + 1

RECURSIVE Pow2(_)
\* Math.pow(2, n)
Pow2(n) == IF n = 0 THEN 1 ELSE 2 * Pow2(n - 1)

\* IsRetryableStatus taking every client error for retryable too
IsRetryableStatusFrom400(status) == status = {429} \/ \E n \in status : n >= 400

\* IsRetryableStatus with 500 itself left out
IsRetryableStatusAbove500(status) == status = {429} \/ \E n \in status : n > 500

\* status === 429 || (typeof status === 'number' && status >= 500)
IsRetryableStatus(status) == status = {429} \/ \E n \in status : n >= 500

\* withRetry with a loop that allows one retry more
withRetryOneMore(c, answer, status, maxRetries, baseDelay) ==
    IF answer.ok
    THEN [c EXCEPT !.wr = [st |-> "returned", v |-> answer.v]]
    ELSE IF IsRetryableStatus(status) /\ c.attempt <= maxRetries
    THEN [c EXCEPT !.delay = baseDelay * Pow2(c.attempt), !.attempt = c.attempt + 1]
    ELSE [c EXCEPT !.wr = [st |-> "threw", v |-> answer.v]]

\* One pass of withRetry's loop body: fn() settled with `answer` on this attempt
withRetry(c, answer, status, maxRetries, baseDelay) ==
    IF answer.ok
    THEN [c EXCEPT !.wr = [st |-> "returned", v |-> answer.v]]
    ELSE IF IsRetryableStatus(status) /\ c.attempt < maxRetries
    THEN [c EXCEPT !.delay = baseDelay * Pow2(c.attempt), !.attempt = c.attempt + 1]
    ELSE [c EXCEPT !.wr = [st |-> "threw", v |-> answer.v]]

\* notion.ts withRetry: reads err.status
notionWithRetry(c, answer) ==
    withRetry(c, answer, IF answer.ok THEN {} ELSE answer.v.status, NOTION_MAX_RETRIES, NOTION_BASE_DELAY_MS)

\* todoist.ts withRetry: reads err.httpStatusCode ?? err.status
todoistWithRetry(c, answer) ==
    withRetry(c, answer,
              IF answer.ok THEN {} ELSE IF answer.v.httpStatusCode # {} THEN answer.v.httpStatusCode ELSE answer.v.status,
              TODOIST_MAX_RETRIES, TODOIST_BASE_DELAY_MS)

\* An object from a set of <<key, value>> pairs with distinct keys
ObjOf(pairs) == Obj([k \in {p[1] : p \in pairs} |-> (CHOOSE p \in pairs : p[1] = k)[2]])

\* notion.ts getNotionClient and getDatabaseId: the error thrown, or None
notionConfigError(e) ==
    IF e.NOTION_API_KEY = "" THEN Error("NOTION_API_KEY environment variable is not set")
    ELSE IF e.NOTION_DATABASE_ID = "" THEN Error("NOTION_DATABASE_ID environment variable is not set")
    ELSE None

\* getNotionClient alone (updateNotionTask and deleteNotionTask read no database id)
notionClientError(e) ==
    IF e.NOTION_API_KEY = "" THEN Error("NOTION_API_KEY environment variable is not set") ELSE None

\* todoist.ts getTodoistClient: the error thrown, or None
todoistClientError(e, cl) ==
    IF cl = "null" /\ e.TODOIST_API_TOKEN = "" THEN Error("TODOIST_API_TOKEN environment variable is not set")
    ELSE None

\* _client after getTodoistClient
todoistClientAfter(e, cl) == IF cl = "null" /\ e.TODOIST_API_TOKEN # "" THEN "TodoistApi" ELSE cl

\* unifiedStatusToNotion with in_progress falling to the default
unifiedStatusToNotionTwoWay(status) == IF status = Str("done") THEN "Done" ELSE "To Do"

unifiedStatusToNotion(status) ==
    CASE status = Str("done") -> "Done"
      [] status = Str("in_progress") -> "In Progress"
      [] OTHER -> "To Do"

\* unifiedPriorityToNotion writing a name for urgent that the reader does not know
unifiedPriorityToNotionHighest(priority) ==
    CASE priority = Str("urgent") -> "Highest"
      [] priority = Str("high") -> "High"
      [] priority = Str("low") -> "Low"
      [] OTHER -> "Medium"

unifiedPriorityToNotion(priority) ==
    CASE priority = Str("urgent") -> "Urgent"
      [] priority = Str("high") -> "High"
      [] priority = Str("low") -> "Low"
      [] OTHER -> "Medium"

unifiedPriorityToTodoist(priority) ==
    CASE priority = Str("urgent") -> 4
      [] priority = Str("high") -> 3
      [] priority = Str("medium") -> 2
      [] OTHER -> 1

----------------------------------------------------------------------------
(* src/api/notion.ts: the connector functions, up to their first await     *)
(* (the operators named as the functions) and from each await on           *)
(* (the ...Resume operators).                                              *)

IsTruthy(x) == ~IsFalsy(x)

TextOf(x) == Arr(<<Obj([text |-> Obj([content |-> x])])>>)

\* labels.map((name) => ({ name }))
NamesOf(labels) == Arr([i \in 1..Len(labels.v) |-> Obj([name |-> labels.v[i]])])

\* The properties createNotionTask builds from its input
notionCreateProperties(input) ==
    ObjOf({<<"Name", Obj([title |-> TextOf(Get(input, "title"))])>>}
        \cup (IF IsTruthy(Get(input, "status"))
              THEN {<<"Status", Obj([status |-> Obj([name |-> Str(unifiedStatusToNotion(Get(input, "status")))])])>>}
              ELSE {})
        \cup (IF IsTruthy(Get(input, "priority"))
              THEN {<<"Priority", Obj([select |-> Obj([name |-> Str(unifiedPriorityToNotion(Get(input, "priority")))])])>>}
              ELSE {})
        \cup (IF IsTruthy(Get(input, "description"))
              THEN {<<"Description", Obj([rich_text |-> TextOf(Get(input, "description"))])>>}
              ELSE {})
        \cup (IF IsTruthy(Get(input, "dueDate"))
              THEN {<<"Due", Obj([date |-> Obj([start |-> Get(input, "dueDate")])])>>}
              ELSE {})
        \cup (IF IsArray(Get(input, "labels")) /\ Len(Get(input, "labels").v) > 0
              THEN {<<"Tags", Obj([multi_select |-> NamesOf(Get(input, "labels"))])>>}
              ELSE {})
        \cup (IF IsTruthy(Get(input, "projectName"))
              THEN {<<"Project", Obj([select |-> Obj([name |-> Get(input, "projectName")])])>>}
              ELSE {}))

\* The properties updateNotionTask builds from its updates
notionUpdateProperties(updates) ==
    ObjOf((IF Get(updates, "title") # Undefined
           THEN {<<"Name", Obj([title |-> TextOf(Get(updates, "title"))])>>}
           ELSE {})
        \cup (IF Get(updates, "status") # Undefined
              THEN {<<"Status", Obj([status |-> Obj([name |-> Str(unifiedStatusToNotion(Get(updates, "status")))])])>>}
              ELSE {})
        \cup (IF Get(updates, "priority") # Undefined
              THEN {<<"Priority", Obj([select |-> Obj([name |-> Str(unifiedPriorityToNotion(Get(updates, "priority")))])])>>}
              ELSE {})
        \cup (IF Get(updates, "description") # Undefined
              THEN {<<"Description", Obj([rich_text |-> TextOf(Get(updates, "description"))])>>}
              ELSE {})
        \cup (IF Get(updates, "dueDate") # Undefined
              THEN {<<"Due", Obj([date |-> IF IsTruthy(Get(updates, "dueDate"))
                                           THEN Obj([start |-> Get(updates, "dueDate")]) ELSE Null])>>}
              ELSE {})
        \cup (IF Get(updates, "labels") # Undefined
              THEN {<<"Tags", Obj([multi_select |-> NamesOf(Get(updates, "labels"))])>>}
              ELSE {}))

fetchNotionTasks(e) ==
    IF notionConfigError(e) # None THEN Rejected(notionConfigError(e))
    ELSE Pending("fetchNotionTasks", "databases.query", Obj([page_size |-> Num(100)]), <<>>)

createNotionTask(e, input) ==
    IF notionConfigError(e) # None THEN Rejected(notionConfigError(e))
    ELSE Pending("createNotionTask", "pages.create",
                 Obj([parent |-> Obj([database_id |-> Str(e.NOTION_DATABASE_ID)]),
                      properties |-> notionCreateProperties(input)]), None)

updateNotionTask(e, sourceId, updates) ==
    IF notionClientError(e) # None THEN Rejected(notionClientError(e))
    ELSE IF Get(updates, "labels") # Undefined /\ ~IsArray(Get(updates, "labels")) THEN Rejected(TypeError)
    ELSE Pending("updateNotionTask", "pages.update",
                 Obj([page_id |-> sourceId, properties |-> notionUpdateProperties(updates)]), None)

deleteNotionTask(e, sourceId) ==
    IF notionClientError(e) # None THEN Rejected(notionClientError(e))
    ELSE Pending("deleteNotionTask", "pages.update", Obj([page_id |-> sourceId, archived |-> Bool(TRUE)]), None)

\* IsPageRecord without the test for properties
IsPageRecordByObject(result) == Get(result, "object") = Str("page")

\* result.object === 'page' && 'properties' in result
IsPageRecord(result) == Get(result, "object") = Str("page") /\ HasKey(result, "properties")

RECURSIVE mapNotionPages(_, _)
\* pages.map((page) => notionPageToTask(page))
mapNotionPages(pages, t) ==
    IF pages = <<>> THEN Returned(<<>>)
    ELSE LET first == notionPageToTask(Head(pages), t)
             rest == mapNotionPages(Tail(pages), t)
         IN  IF first.thrown \/ rest.thrown THEN Thrown ELSE Returned(<<first.v>> \o rest.v)

\* fetchNotionTasks from `const response = await withRetry(...)` on
fetchNotionTasksResume(c, response, t) ==
    IF ~IsArray(Get(response, "results")) \/ \E i \in 1..Len(Get(response, "results").v) : IsNullish(Get(response, "results").v[i])
    THEN Rejected(TypeError)
    ELSE LET pages == c.acc \o SelectSeq(Get(response, "results").v, IsPageRecord)
             cursor == IF IsTruthy(Get(response, "has_more"))
                       THEN Coalesce(Get(response, "next_cursor"), Undefined) ELSE Undefined
             tasks == mapNotionPages(pages, t)
         IN  IF IsTruthy(cursor)
             THEN Pending(c.fn, c.api, Obj([page_size |-> Num(100), start_cursor |-> cursor]), pages)
             ELSE IF tasks.thrown THEN Rejected(TypeError) ELSE Fulfilled(tasks.v)

\* createNotionTask and updateNotionTask from `const page = await withRetry(...)` on
notionPageResume(page, t) ==
    IF IsNullish(page) \/ notionPageToTask(page, t).thrown THEN Rejected(TypeError)
    ELSE Fulfilled(notionPageToTask(page, t).v)

----------------------------------------------------------------------------
(* src/api/todoist.ts: the connector functions, as for Notion.             *)

todoistAddParams(input) ==
    ObjOf({<<"content", Get(input, "title")>>}
        \cup (IF IsTruthy(Get(input, "description")) THEN {<<"description", Get(input, "description")>>} ELSE {})
        \cup (IF IsTruthy(Get(input, "priority"))
              THEN {<<"priority", Num(unifiedPriorityToTodoist(Get(input, "priority")))>>} ELSE {})
        \cup (IF IsTruthy(Get(input, "dueDate")) THEN {<<"dueString", Get(input, "dueDate")>>} ELSE {})
        \cup (IF IsArray(Get(input, "labels")) /\ Len(Get(input, "labels").v) > 0
              THEN {<<"labels", Get(input, "labels")>>} ELSE {}))

todoistUpdateParams(updates) ==
    ObjOf((IF Get(updates, "title") # Undefined THEN {<<"content", Get(updates, "title")>>} ELSE {})
        \cup (IF Get(updates, "description") # Undefined THEN {<<"description", Get(updates, "description")>>} ELSE {})
        \cup (IF Get(updates, "priority") # Undefined
              THEN {<<"priority", Num(unifiedPriorityToTodoist(Get(updates, "priority")))>>} ELSE {})
        \cup (IF Get(updates, "dueDate") # Undefined
              THEN {<<"dueString", OrElse(Get(updates, "dueDate"), Undefined)>>} ELSE {})
        \cup (IF Get(updates, "labels") # Undefined THEN {<<"labels", Get(updates, "labels")>>} ELSE {}))

fetchTodoistTasks(e, cl) ==
    IF todoistClientError(e, cl) # None THEN Rejected(todoistClientError(e, cl))
    ELSE Pending("fetchTodoistTasks", "getTasks", EmptyObj, None)

createTodoistTask(e, cl, input) ==
    IF todoistClientError(e, cl) # None THEN Rejected(todoistClientError(e, cl))
    ELSE Pending("createTodoistTask", "addTask", todoistAddParams(input), None)

\* `acc` keeps the function's parameters and its local `task` across the awaits
updateTodoistTask(e, cl, sourceId, updates) ==
    IF todoistClientError(e, cl) # None THEN Rejected(todoistClientError(e, cl))
    ELSE Pending("updateTodoistTask", "updateTask", Obj([id |-> sourceId, params |-> todoistUpdateParams(updates)]),
                 [sourceId |-> sourceId, updates |-> updates, task |-> Undefined])

deleteTodoistTask(e, cl, sourceId) ==
    IF todoistClientError(e, cl) # None THEN Rejected(todoistClientError(e, cl))
    ELSE Pending("deleteTodoistTask", "deleteTask", Obj([id |-> sourceId]), None)

RECURSIVE mapTodoistItems(_, _)
\* tasks.map((task) => todoistItemToTask(task))
mapTodoistItems(items, t) ==
    IF items = <<>> THEN Returned(<<>>)
    ELSE LET first == todoistItemToTask(Head(items), t)
             rest == mapTodoistItems(Tail(items), t)
         IN  IF first.thrown \/ rest.thrown THEN Thrown ELSE Returned(<<first.v>> \o rest.v)

\* fetchTodoistTasks from `const response = await withRetry(...)` on
fetchTodoistTasksResume(response, t) ==
    IF IsNullish(response) THEN Rejected(TypeError)
    ELSE LET tasks == IF IsArray(response) THEN response ELSE Coalesce(Get(response, "results"), Arr(<<>>))
         IN  IF ~IsArray(tasks) \/ mapTodoistItems(tasks.v, t).thrown THEN Rejected(TypeError)
             ELSE Fulfilled(mapTodoistItems(tasks.v, t).v)

\* createTodoistTask from `const task = await withRetry(...)` on
todoistItemResume(task, t) ==
    IF todoistItemToTask(task, t).thrown THEN Rejected(TypeError) ELSE Fulfilled(todoistItemToTask(task, t).v)

\* todoistWantsClose taking any status an update sets for done
todoistWantsCloseWhenSet(updates) == Get(updates, "status") # Undefined

\* if (updates.status === 'done')
todoistWantsClose(updates) == Get(updates, "status") = Str("done")

\* if (updates.status === 'todo' || updates.status === 'in_progress')
todoistWantsReopen(updates) == Get(updates, "status") \in {Str("todo"), Str("in_progress")}

\* updateTodoistTask from the await of the request `c.api` on
updateTodoistTaskResume(c, value, t) ==
    LET task == IF c.api = "updateTask" THEN value ELSE c.acc.task
        acc == [c.acc EXCEPT !.task = task]
    IN  IF c.api = "updateTask" /\ todoistWantsClose(c.acc.updates)
        THEN Pending(c.fn, "closeTask", Obj([id |-> c.acc.sourceId]), acc)
        ELSE IF c.api \in {"updateTask", "closeTask"} /\ todoistWantsReopen(c.acc.updates)
        THEN Pending(c.fn, "reopenTask", Obj([id |-> c.acc.sourceId]), acc)
        ELSE todoistItemResume(task, t)

\* Resume with fetchNotionTasks settling for the pages it has when a query throws
ResumeKeepsPages(c, t) ==
    IF c.wr.st = "threw"
    THEN IF c.fn = "fetchNotionTasks" /\ c.acc # <<>> /\ ~mapNotionPages(c.acc, t).thrown
         THEN Fulfilled(mapNotionPages(c.acc, t).v)
         ELSE Rejected(c.wr.v)
    ELSE CASE c.fn = "fetchNotionTasks" -> fetchNotionTasksResume(c, c.wr.v, t)
           [] c.fn \in {"createNotionTask", "updateNotionTask"} -> notionPageResume(c.wr.v, t)
           [] c.fn = "fetchTodoistTasks" -> fetchTodoistTasksResume(c.wr.v, t)
           [] c.fn = "createTodoistTask" -> todoistItemResume(c.wr.v, t)
           [] c.fn = "updateTodoistTask" -> updateTodoistTaskResume(c, c.wr.v, t)
           [] OTHER -> Fulfilled(Undefined)

\* A connector function from the await that `c.wr` settled on: its next request, or how its promise settles
Resume(c, t) ==
    IF c.wr.st = "threw" THEN Rejected(c.wr.v)
    ELSE CASE c.fn = "fetchNotionTasks" -> fetchNotionTasksResume(c, c.wr.v, t)
           [] c.fn \in {"createNotionTask", "updateNotionTask"} -> notionPageResume(c.wr.v, t)
           [] c.fn = "fetchTodoistTasks" -> fetchTodoistTasksResume(c.wr.v, t)
           [] c.fn = "createTodoistTask" -> todoistItemResume(c.wr.v, t)
           [] c.fn = "updateTodoistTask" -> updateTodoistTaskResume(c, c.wr.v, t)
           [] OTHER -> Fulfilled(Undefined)

\* What the provider can answer to the request of a pending connector
Answers(c) ==
    CASE c.api = "databases.query" -> NotionQueryAnswers(c.arg)
      [] c.api = "pages.create" -> NotionPageAnswers(Str("n7"))
      [] c.api = "pages.update" -> NotionPageAnswers(Get(c.arg, "page_id"))
      [] c.api = "getTasks" -> TodoistTasksAnswers
      [] c.api = "addTask" -> TodoistItemAnswers(Str("t7"))
      [] c.api = "updateTask" -> TodoistItemAnswers(Get(c.arg, "id"))
      [] OTHER -> {Bool(TRUE)}

----------------------------------------------------------------------------
(* src/api/taskService.ts *)

Idle == [op |-> "idle"]

Writes == {"createTask", "updateTask", "deleteTask"}

\* The task stubs and bodies the HTTP layer passes in
TaskStubs ==
    {[source |-> "notion", sourceId |-> Str("n1")], [source |-> "todoist", sourceId |-> Str("t1")],
     [source |-> "todoist", sourceId |-> Str("t2")], [source |-> "trello", sourceId |-> Str("x1")],
     [source |-> "Notion", sourceId |-> Str("n1")]}

Sources == {task.source : task \in TaskStubs}

CreateInputs ==
    {Obj([title |-> Str("A")]),
     Obj([title |-> Str("B"), status |-> Str("done"), priority |-> Str("urgent"), labels |-> Arr(<<Str("x")>>)])}

UpdateInputs ==
    {Obj([status |-> Str("done")]), Obj([status |-> Str("todo"), title |-> Str("C")]),
     Obj([status |-> Str("in_progress")]), Obj([priority |-> Str("high"), labels |-> Arr(<<>>)])}

\* isCacheValid with the window one millisecond short
isCacheValidEarly == cache # Null /\ now - cache.timestamp < CACHE_TTL_MS - 1

isCacheValid == cache # Null /\ now - cache.timestamp < CACHE_TTL_MS

\* The comparator of tasks.sort: dateB - dateA, which sort reads as 0 when it is NaN
compareUpdatedAt(a, b) ==
    LET d == Minus(DateGetTime(b.updatedAt), DateGetTime(a.updatedAt))
    IN  IF "nan" \in DOMAIN d THEN 0 ELSE d.v

RECURSIVE insertTaskAheadOfTies(_, _)
\* insertTask as an unstable sort would place x: ahead of the records it ties with
insertTaskAheadOfTies(s, x) ==
    IF s # <<>> /\ compareUpdatedAt(s[Len(s)], x) >= 0
    THEN insertTaskAheadOfTies(SubSeq(s, 1, Len(s) - 1), x) \o <<s[Len(s)]>>
    ELSE s \o <<x>>

RECURSIVE insertTask(_, _)
\* x put into the sorted s behind every element that does not compare greater
insertTask(s, x) ==
    IF s # <<>> /\ compareUpdatedAt(s[Len(s)], x) > 0
    THEN insertTask(SubSeq(s, 1, Len(s) - 1), x) \o <<s[Len(s)]>>
    ELSE s \o <<x>>

\* sortTasks with the sort left out
sortTasksUnsorted(tasks) == tasks

RECURSIVE sortTasks(_)
\* tasks.sort(...): Array.prototype.sort is stable
sortTasks(tasks) ==
    IF tasks = <<>> THEN <<>> ELSE insertTask(sortTasks(SubSeq(tasks, 1, Len(tasks) - 1)), tasks[Len(tasks)])

\* The records of a settled fetch: for (const result of results) tasks.push(...result.value)
pushed(c) == IF c.st = "fulfilled" THEN c.value ELSE <<>>

\* The event loop has nothing to run: every promise continuation has run
Quiet ==
    /\ inbox = None
    /\ done = None
    /\ \A r \in Reqs :
        /\ \A p \in Providers : conn[r][p].st = "pending" => conn[r][p].wr = None
        /\ call[r].op \in Writes => \A p \in Providers : ~IsSettled(conn[r][p])
        /\ call[r].op = "getAllTasks" => \E p \in Providers : ~IsSettled(conn[r][p])

\* process.env: each variable set or not
Envs == [NOTION_API_KEY : {"", "secret"}, NOTION_DATABASE_ID : {"", "db"}, TODOIST_API_TOKEN : {"", "token"}]

Init ==
    /\ now = 0
    /\ cache = Null
    /\ env \in Envs
    /\ client = "null"
    /\ call = [r \in Reqs |-> Idle]
    /\ conn = [r \in Reqs |-> [p \in Providers |-> NoConn]]
    /\ inbox = None
    /\ done = None
    /\ written = FALSE
    /\ stale = {}

\* Time passes
Tick ==
    /\ Quiet
    /\ \E d \in {CACHE_TTL_MS - 1, CACHE_TTL_MS} : now + d <= MaxNow /\ now' = now + d
    /\ UNCHANGED <<cache, env, client, call, conn, inbox, done, written, stale>>

\* RefreshTasks discarding a snapshot only once it has expired
RefreshTasksKeepsFresh ==
    /\ Quiet
    /\ cache' = IF isCacheValid THEN cache ELSE Null
    /\ UNCHANGED <<now, env, client, call, conn, inbox, done, written, stale>>

\* refreshTasks(), as POST /api/tasks/refresh calls it
RefreshTasks ==
    /\ Quiet
    /\ cache' = Null
    /\ UNCHANGED <<now, env, client, call, conn, inbox, done, written, stale>>

\* getAllTasks(), to its return on a cache hit or to its await
GetAllTasks(r) ==
    /\ Quiet
    /\ call[r] = Idle
    /\ IF isCacheValid
       THEN /\ done' = [r |-> r, op |-> "getAllTasks", ok |-> TRUE, v |-> cache.tasks]
            /\ UNCHANGED <<call, conn, client>>
       ELSE /\ call' = [call EXCEPT ![r] = [op |-> "getAllTasks"]]
            /\ conn' = [conn EXCEPT ![r] = [p \in Providers |->
                            IF p = "notion" THEN fetchNotionTasks(env) ELSE fetchTodoistTasks(env, client)]]
            /\ client' = todoistClientAfter(env, client)
            /\ UNCHANGED done
    /\ written' = FALSE
    /\ UNCHANGED <<now, cache, env, inbox, stale>>

\* GetAllTasksJoin as Promise.all would join: the first rejection is thrown
GetAllTasksJoinAll(r) ==
    /\ inbox = None /\ done = None
    /\ call[r].op = "getAllTasks"
    /\ \A p \in Providers : IsSettled(conn[r][p])
    /\ IF \E p \in Providers : conn[r][p].st = "rejected"
       THEN /\ done' = [r |-> r, op |-> "getAllTasks", ok |-> FALSE,
                        err |-> conn[r][CHOOSE p \in Providers : conn[r][p].st = "rejected"].err]
            /\ UNCHANGED cache
       ELSE LET tasks == sortTasks(pushed(conn[r]["notion"]) \o pushed(conn[r]["todoist"]))
            IN  /\ cache' = [tasks |-> tasks, timestamp |-> now]
                /\ done' = [r |-> r, op |-> "getAllTasks", ok |-> TRUE, v |-> tasks]
    /\ call' = [call EXCEPT ![r] = Idle]
    /\ stale' = stale \ {r}
    /\ UNCHANGED <<now, env, client, conn, inbox, written>>

\* GetAllTasksJoin going on as soon as one of the two fetches has settled
GetAllTasksJoinAny(r) ==
    /\ inbox = None /\ done = None
    /\ call[r].op = "getAllTasks"
    /\ \E p \in Providers : IsSettled(conn[r][p])
    /\ LET tasks == sortTasks(pushed(conn[r]["notion"]) \o pushed(conn[r]["todoist"]))
       IN  /\ cache' = [tasks |-> tasks, timestamp |-> now]
           /\ done' = [r |-> r, op |-> "getAllTasks", ok |-> TRUE, v |-> tasks]
    /\ call' = [call EXCEPT ![r] = Idle]
    /\ stale' = stale \ {r}
    /\ UNCHANGED <<now, env, client, conn, inbox, written>>

\* GetAllTasksJoin storing the merged records before they are sorted
GetAllTasksJoinStoresUnsorted(r) ==
    /\ inbox = None /\ done = None
    /\ call[r].op = "getAllTasks"
    /\ \A p \in Providers : IsSettled(conn[r][p])
    /\ LET tasks == pushed(conn[r]["notion"]) \o pushed(conn[r]["todoist"])
       IN  /\ cache' = [tasks |-> tasks, timestamp |-> now]
           /\ done' = [r |-> r, op |-> "getAllTasks", ok |-> TRUE, v |-> sortTasks(tasks)]
    /\ call' = [call EXCEPT ![r] = Idle]
    /\ stale' = stale \ {r}
    /\ UNCHANGED <<now, env, client, conn, inbox, written>>

\* getAllTasks() from `await Promise.allSettled(...)` on
GetAllTasksJoin(r) ==
    /\ inbox = None /\ done = None
    /\ call[r].op = "getAllTasks"
    /\ \A p \in Providers : IsSettled(conn[r][p])
    /\ LET tasks == sortTasks(pushed(conn[r]["notion"]) \o pushed(conn[r]["todoist"]))
       IN  /\ cache' = [tasks |-> tasks, timestamp |-> now]
           /\ done' = [r |-> r, op |-> "getAllTasks", ok |-> TRUE, v |-> tasks]
    /\ call' = [call EXCEPT ![r] = Idle]
    /\ stale' = stale \ {r}
    /\ UNCHANGED <<now, env, client, conn, inbox, written>>

\* Route with a switch whose default falls through to Todoist
RouteToDefault(r, op, source, started) ==
    LET target == IF source = "notion" THEN "notion" ELSE "todoist"
    IN  /\ call' = [call EXCEPT ![r] = op]
        /\ conn' = [conn EXCEPT ![r][target] = started]
        /\ client' = IF target = "todoist" THEN todoistClientAfter(env, client) ELSE client
        /\ UNCHANGED done

\* The switch of createTask, updateTask and deleteTask: the connector promise awaited, by provider
Route(r, op, source, started) ==
    IF source \in Providers
    THEN /\ call' = [call EXCEPT ![r] = op]
         /\ conn' = [conn EXCEPT ![r][source] = started]
         /\ client' = IF source = "todoist" THEN todoistClientAfter(env, client) ELSE client
         /\ UNCHANGED done
    ELSE /\ done' = [r |-> r, op |-> op.op, ok |-> FALSE, err |-> Error("Unsupported task source: " \o source)]
         /\ UNCHANGED <<call, conn, client>>

\* createTask(source, input), to its await or its throw
CreateTask(r, source, input) ==
    /\ Quiet
    /\ call[r] = Idle
    /\ Route(r, [op |-> "createTask", source |-> source, input |-> input], source,
             IF source = "notion" THEN createNotionTask(env, input) ELSE createTodoistTask(env, client, input))
    /\ UNCHANGED <<now, cache, env, inbox, written, stale>>

\* UpdateTask handing the connector the unified id in place of the provider's
UpdateTaskByUnifiedId(r, task, updates) ==
    /\ Quiet
    /\ call[r] = Idle
    /\ Route(r, [op |-> "updateTask", task |-> task, updates |-> updates], task.source,
             IF task.source = "notion"
             THEN updateNotionTask(env, Str("notion-" \o task.sourceId.v), updates)
             ELSE updateTodoistTask(env, client, Str("todoist-" \o task.sourceId.v), updates))
    /\ UNCHANGED <<now, cache, env, inbox, written, stale>>

\* updateTask(task, updates), to its await or its throw
UpdateTask(r, task, updates) ==
    /\ Quiet
    /\ call[r] = Idle
    /\ Route(r, [op |-> "updateTask", task |-> task, updates |-> updates], task.source,
             IF task.source = "notion" THEN updateNotionTask(env, task.sourceId, updates)
             ELSE updateTodoistTask(env, client, task.sourceId, updates))
    /\ UNCHANGED <<now, cache, env, inbox, written, stale>>

\* deleteTask(task), to its await or its throw
DeleteTask(r, task) ==
    /\ Quiet
    /\ call[r] = Idle
    /\ Route(r, [op |-> "deleteTask", task |-> task], task.source,
             IF task.source = "notion" THEN deleteNotionTask(env, task.sourceId)
             ELSE deleteTodoistTask(env, client, task.sourceId))
    /\ UNCHANGED <<now, cache, env, inbox, written, stale>>

\* The requests a write of request r to provider p overtakes as it returns: their
\* getAllTasks call awaits its join with the fetch of p settled, on records that
\* p listed before it answered the write
Overtaken(r, p) == {q \in Reqs \ {r} : call[q].op = "getAllTasks" /\ conn[q][p].st = "fulfilled"}

\* WriteResume without the call of refreshTasks()
WriteResumeKeepsCache(r) ==
    /\ inbox = None /\ done = None
    /\ call[r].op \in Writes
    /\ \E p \in Providers :
        /\ IsSettled(conn[r][p])
        /\ IF conn[r][p].st = "fulfilled"
           THEN /\ done' = [r |-> r, op |-> call[r].op, ok |-> TRUE,
                            v |-> IF call[r].op = "deleteTask" THEN Undefined ELSE conn[r][p].value]
                /\ written' = TRUE
                /\ stale' = stale \cup Overtaken(r, p)
           ELSE /\ done' = [r |-> r, op |-> call[r].op, ok |-> FALSE, err |-> conn[r][p].err]
                /\ UNCHANGED <<written, stale>>
    /\ call' = [call EXCEPT ![r] = Idle]
    /\ UNCHANGED <<now, cache, env, client, conn, inbox>>

\* WriteResume with refreshTasks() in a finally block
WriteResumeAlwaysRefreshes(r) ==
    /\ inbox = None /\ done = None
    /\ call[r].op \in Writes
    /\ \E p \in Providers :
        /\ IsSettled(conn[r][p])
        /\ IF conn[r][p].st = "fulfilled"
           THEN /\ done' = [r |-> r, op |-> call[r].op, ok |-> TRUE,
                            v |-> IF call[r].op = "deleteTask" THEN Undefined ELSE conn[r][p].value]
                /\ written' = TRUE
                /\ stale' = stale \cup Overtaken(r, p)
           ELSE /\ done' = [r |-> r, op |-> call[r].op, ok |-> FALSE, err |-> conn[r][p].err]
                /\ UNCHANGED <<written, stale>>
    /\ cache' = Null
    /\ call' = [call EXCEPT ![r] = Idle]
    /\ UNCHANGED <<now, env, client, conn, inbox>>

\* createTask, updateTask and deleteTask from their await on: refreshTasks() and return, or the rejection passed on
WriteResume(r) ==
    /\ inbox = None /\ done = None
    /\ call[r].op \in Writes
    /\ \E p \in Providers :
        /\ IsSettled(conn[r][p])
        /\ IF conn[r][p].st = "fulfilled"
           THEN /\ cache' = Null
                /\ done' = [r |-> r, op |-> call[r].op, ok |-> TRUE,
                            v |-> IF call[r].op = "deleteTask" THEN Undefined ELSE conn[r][p].value]
                /\ written' = TRUE
                /\ stale' = stale \cup Overtaken(r, p)
           ELSE /\ done' = [r |-> r, op |-> call[r].op, ok |-> FALSE, err |-> conn[r][p].err]
                /\ UNCHANGED <<cache, written, stale>>
    /\ call' = [call EXCEPT ![r] = Idle]
    /\ UNCHANGED <<now, env, client, conn, inbox>>

ErrorsOf(p) == IF p = "notion" THEN NotionErrors ELSE TodoistErrors

\* The provider settles the request of a pending connector: fn() resolves or rejects
Answer(r, p, w) ==
    /\ Quiet
    /\ conn[r][p].st = "pending"
    /\ \E a \in {AnswerOk(v) : v \in Answers(conn[r][p]) \ w.never}
                \cup {AnswerErr(e) : e \in ErrorsOf(p) \cap w.errors} :
        inbox' = [r |-> r, p |-> p, answer |-> a]
    /\ UNCHANGED <<now, cache, env, client, call, conn, done, written, stale>>

\* withRetry takes the settled fn(): returns, throws, or backs off and calls fn() again
Retry(r, p) ==
    /\ inbox # None
    /\ inbox.r = r /\ inbox.p = p
    /\ conn' = [conn EXCEPT ![r][p] =
                    IF p = "notion" THEN notionWithRetry(@, inbox.answer) ELSE todoistWithRetry(@, inbox.answer)]
    /\ inbox' = None
    /\ UNCHANGED <<now, cache, env, client, call, done, written, stale>>

\* A connector function runs on from the await that settled
ConnectorResume(r, p) ==
    /\ inbox = None /\ done = None
    /\ conn[r][p].st = "pending"
    /\ conn[r][p].wr # None
    /\ conn' = [conn EXCEPT ![r][p] = Resume(@, now)]
    /\ UNCHANGED <<now, cache, env, client, call, inbox, done, written, stale>>

\* The HTTP layer takes the result: res.json(...) or next(error); the call's settled promises are dropped
Respond ==
    /\ done # None
    /\ done' = None
    /\ conn' = [conn EXCEPT ![done.r] = [p \in Providers |-> NoConn]]
    /\ UNCHANGED <<now, cache, env, client, call, inbox, written, stale>>

\* A world bounds what the callers ask and what the providers answer: the task
\* stubs and bodies that come in, the errors the providers fail with, the
\* answers they never give
World ==
    [stubs |-> TaskStubs, creates |-> CreateInputs, updates |-> UpdateInputs, errors |-> FatalErrors, never |-> {}]

\* The steps of request r in world w
Step(r, w) ==
    \/ GetAllTasks(r)
    \/ \E source \in {task.source : task \in w.stubs}, input \in w.creates : CreateTask(r, source, input)
    \/ \E task \in w.stubs, updates \in w.updates : UpdateTask(r, task, updates)
    \/ \E task \in w.stubs : DeleteTask(r, task)
    \/ \E p \in Providers : Answer(r, p, w)
    \/ \E p \in Providers : Retry(r, p)
    \/ \E p \in Providers : ConnectorResume(r, p)
    \/ GetAllTasksJoin(r)
    \/ WriteResume(r)

\* One request at a time; a provider fails with an error that is not retried
Next ==
    \/ Tick
    \/ RefreshTasks
    \/ Respond
    \/ Step("r1", World)

Spec == Init /\ [][Next]_vars

\* One request at a time to one configured provider, which fails with any of its errors
InitRetry ==
    /\ Init
    /\ env \in {e \in Envs : (notionConfigError(e) = None) # (e.TODOIST_API_TOKEN # "")}

WorldRetry ==
    [stubs |-> {task \in TaskStubs : task.sourceId \in {Str("n1"), Str("t1")}},
     creates |-> {Obj([title |-> Str("A")])},
     updates |-> {Obj([status |-> Str("done")]), Obj([status |-> Str("todo"), title |-> Str("C")])},
     errors |-> NotionErrors \cup TodoistErrors,
     never |-> {}]

NextRetry ==
    \/ Tick
    \/ RefreshTasks
    \/ Respond
    \/ Step("r1", WorldRetry)

SpecRetry == InitRetry /\ [][NextRetry]_vars

\* Two requests in flight together, both providers configured
InitConc ==
    /\ Init
    /\ env = [NOTION_API_KEY |-> "secret", NOTION_DATABASE_ID |-> "db", TODOIST_API_TOKEN |-> "token"]

WorldConc ==
    [stubs |-> {[source |-> "todoist", sourceId |-> Str("t1")]},
     creates |-> {Obj([title |-> Str("A")])},
     updates |-> {Obj([status |-> Str("done")])},
     errors |-> {HttpError({}, {404}), HttpError({404}, {})},
     never |-> (NotionQueryAnswers(EmptyObj) \ {QueryResponse(<<PageN1, NotPage, PageN2>>, FALSE, Null)})
               \cup (TodoistTasksAnswers \ {Arr(<<ItemT1, ItemT2>>)})
               \cup {item \in TodoistItemAnswers(Str("t1")) \cup TodoistItemAnswers(Str("t7")) :
                        Get(item, "isCompleted") = Bool(TRUE)}]

NextConc ==
    \/ Tick
    \/ RefreshTasks
    \/ Respond
    \/ \E r \in Reqs : Step(r, WorldConc)

SpecConc == InitConc /\ [][NextConc]_vars

----------------------------------------------------------------------------
(* The normalizers on their own: `inbox` holds a raw record as a provider  *)
(* hands it over, `done` what the normalizer made of it.                   *)

\* props.Name of a raw page: absent, or with a `title` of any shape
RawTitles ==
    {{}} \cup {{<<"Name", Obj([title |-> v])>>} :
                  v \in {Arr(<<>>), RichText("Buy ", "milk"), Arr(<<Null>>), Str("Buy"), Null,
                         RichText("", ""), Arr(<<EmptyObj, Obj([plain_text |-> Str("x")])>>)}}

\* props.Status of a raw page: absent, or with a `status` of any shape
RawStatuses ==
    {{}} \cup {{<<"Status", Obj([status |-> v])>>} :
                  v \in {Null, Str("Done"), Obj([name |-> Str("Done")]), Obj([name |-> Num(5)]),
                         Obj([name |-> Null])}}

\* props.Tags of a raw page: absent, or with a `multi_select` of any shape
RawTags ==
    {{}} \cup {{<<"Tags", Obj([multi_select |-> v])>>} :
                  v \in {Arr(<<Obj([name |-> Str("home")])>>), Arr(<<Null>>), Str("home"), Null, Arr(<<>>),
                         Arr(<<Obj([name |-> Str("home")]), Obj([name |-> Str("work")])>>)}}

\* Status names as users spell them: the synonyms in several cases and with
\* blanks around them, and names that are none of the synonyms
StatusTexts ==
    {"Done", "done", " DONE ", "Complete", "COMPLETED", "completed\n", "In Progress", "in progress",
     "IN_PROGRESS", "\tDoing", "Started ", "To Do", "Blocked", "in  progress", "do ne", " "}

\* Priority names as users spell them
PriorityTexts ==
    {"Urgent", " urgent", "CRITICAL", "Critical\t", "High", " HIGH ", "Low", "low ", "Medium", "P1", "hi gh", ""}

\* Raw Notion pages: without properties, with null properties, with every
\* combination of the property shapes above, with every pair of a status
\* and a priority name, and with ids and timestamps present or not
RawNotionPages ==
    {Obj([object |-> Str("page"), id |-> Str("n1")]),
     Obj([object |-> Str("page"), id |-> Str("n1"), properties |-> Null])}
    \cup {Obj([object |-> Str("page"), id |-> Str("n1"), created_time |-> Iso(1000),
               properties |-> ObjOf(title \cup status \cup tags)]) :
            title \in RawTitles, status \in RawStatuses, tags \in RawTags}
    \cup {Obj([object |-> Str("page"), id |-> Str("n1"), created_time |-> Iso(1000),
               properties |-> Obj([Status |-> Obj([status |-> Obj([name |-> Str(status)])]),
                                   Priority |-> Obj([select |-> Obj([name |-> Str(priority)])])])]) :
            status \in StatusTexts, priority \in PriorityTexts}
    \cup {ObjOf({<<"object", Str("page")>>, <<"properties", EmptyObj>>} \cup id \cup created \cup edited) :
            id \in {{}} \cup {{<<"id", v>>} : v \in {Str("n1"), Str("t1"), Num(5)}},
            created \in {{}} \cup {{<<"created_time", v>>} : v \in {Null, Iso(1000)}},
            edited \in {{}} \cup {{<<"last_edited_time", v>>} : v \in {Iso(2000)}}}

\* Raw Todoist items: each field absent, null, well-typed or wrong-typed;
\* and items with every kind of priority, with ids and createdAt present or not
RawTodoistItems ==
    {ObjOf({<<"id", Str("t1")>>} \cup content \cup priority \cup completed \cup labels \cup due) :
        content \in {{}} \cup {{<<"content", v>>} : v \in {Null, Str(""), Num(7), Str("Call")}},
        priority \in {{}} \cup {{<<"priority", v>>} : v \in {Null, Str("4"), Num(4)}},
        completed \in {{}} \cup {{<<"isCompleted", v>>} : v \in {Null, Str("no"), Bool(TRUE), Bool(FALSE)}},
        labels \in {{}} \cup {{<<"labels", v>>} :
                        v \in {Null, Str("home"), Arr(<<Null>>), Arr(<<>>), Arr(<<Str("home"), Str("work")>>)}},
        due \in {{}} \cup {{<<"due", v>>} : v \in {Null, Str("today")}}}
    \cup {ObjOf({<<"content", Str("Call")>>} \cup id \cup priority \cup created) :
            id \in {{}} \cup {{<<"id", v>>} : v \in {Null, Str("t1"), Str("n1"), Num(5)}},
            priority \in {{}} \cup {{<<"priority", v>>} :
                            v \in {Num(1), Num(2), Num(3), Num(4), Num(0), Num(5), Num(-1), Frac(2, 5), NaN,
                                   Str("3"), Bool(TRUE)}},
            created \in {{}} \cup {{<<"createdAt", v>>} : v \in {Iso(1000)}}}

\* The updates that set a status and a priority
EnumUpdates ==
    {Obj([status |-> Str(status), priority |-> Str(priority)]) :
        status \in {"todo", "in_progress", "done"}, priority \in {"low", "medium", "high", "urgent"}}

\* The record a provider holds once it has applied the fields an update sent:
\* a Notion page has the properties of pages.update, a Todoist item the
\* fields of updateTask
Applied(p, updates) ==
    IF p = "notion"
    THEN Obj([object |-> Str("page"), id |-> Str("n1"), created_time |-> Iso(1000),
              last_edited_time |-> Iso(2000), properties |-> notionUpdateProperties(updates)])
    ELSE Obj([k \in {"id", "createdAt"} \cup DOMAIN todoistUpdateParams(updates).v |->
                 CASE k = "id" -> Str("t1")
                   [] k = "createdAt" -> Iso(1000)
                   [] OTHER -> todoistUpdateParams(updates).v[k]])

\* Some raw record has come from a provider, at one of two instants: any raw
\* record, or the record of a task after an update of its status and priority
InitNorm ==
    /\ now \in {0, 1000}
    /\ cache = Null
    /\ env = [NOTION_API_KEY |-> "secret", NOTION_DATABASE_ID |-> "db", TODOIST_API_TOKEN |-> "token"]
    /\ client = "null"
    /\ conn = [r \in Reqs |-> [p \in Providers |-> NoConn]]
    /\ \/ /\ call = [r \in Reqs |-> Idle]
          /\ inbox \in {[r |-> "r1", p |-> "notion", answer |-> AnswerOk(page)] : page \in RawNotionPages}
                  \cup {[r |-> "r1", p |-> "todoist", answer |-> AnswerOk(item)] : item \in RawTodoistItems}
       \/ \E p \in Providers : \E updates \in EnumUpdates :
              /\ call = [r \in Reqs |->
                            IF r = "r1"
                            THEN [op |-> "updateTask",
                                  task |-> [source |-> p, sourceId |-> Str(IF p = "notion" THEN "n1" ELSE "t1")],
                                  updates |-> updates]
                            ELSE Idle]
              /\ inbox = [r |-> "r1", p |-> p, answer |-> AnswerOk(Applied(p, updates))]
    /\ done = None
    /\ written = FALSE
    /\ stale = {}

\* How a call of a normalizer ends: with the task, or with the TypeError
Normalized(op, out) ==
    IF out.thrown
    THEN [r |-> inbox.r, op |-> op, ok |-> FALSE, err |-> TypeError]
    ELSE [r |-> inbox.r, op |-> op, ok |-> TRUE, v |-> out.v]

\* notionPageToTask(page) on the record at hand, for the first time or again
NotionPageToTask ==
    /\ inbox # None /\ inbox.p = "notion"
    /\ done' = Normalized("notionPageToTask", notionPageToTask(inbox.answer.v, now))
    /\ UNCHANGED <<now, cache, env, client, call, conn, inbox, written, stale>>

\* todoistItemToTask(item) on the record at hand, for the first time or again
TodoistItemToTask ==
    /\ inbox # None /\ inbox.p = "todoist"
    /\ done' = Normalized("todoistItemToTask", todoistItemToTask(inbox.answer.v, now))
    /\ UNCHANGED <<now, cache, env, client, call, conn, inbox, written, stale>>

\* Time passes between two calls of a normalizer
TickNorm ==
    /\ \E d \in {CACHE_TTL_MS - 1, CACHE_TTL_MS} : now + d <= MaxNow /\ now' = now + d
    /\ UNCHANGED <<cache, env, client, call, conn, inbox, done, written, stale>>

NextNorm ==
    \/ NotionPageToTask
    \/ TodoistItemToTask
    \/ TickNorm

SpecNorm == InitNorm /\ [][NextNorm]_vars

----------------------------------------------------------------------------
(* filterTasks.ts: applyFilters on its own.  `inbox` holds the caller's     *)
(* array and the filter state, `done` the array the last call returned.    *)

MaxTasks == 4

\* const priorityOrder
priorityOrder == [urgent |-> 0, high |-> 1, medium |-> 2, low |-> 3]

\* A task as the normalizers make it, by the fields that applyFilters reads
FilterTask(id, source, status, priority, dueDate, createdAt, updatedAt) ==
    [id |-> id, source |-> source, sourceId |-> Str(id), title |-> Str("Task " \o id), description |-> Undefined,
     status |-> status, priority |-> priority, dueDate |-> dueDate, createdAt |-> createdAt,
     updatedAt |-> updatedAt, labels |-> Undefined, projectName |-> Undefined]

\* The tasks the caller's array is made of: dates that tie (one of them in
\* another spelling), tasks without a due date, priorities that tie
MakeTasks ==
    {FilterTask("1", "notion", "todo", "high", Iso(2000), Iso(1000), Iso(3000)),
     FilterTask("2", "todoist", "done", "urgent", Iso(1000), Iso(2000), Iso(2000)),
     FilterTask("3", "notion", "in_progress", "low", Undefined, Iso(3000), Iso(3000)),
     FilterTask("4", "todoist", "todo", "medium", Str("1970-01-01T00:00:02Z"), Iso(1000), Iso(1000)),
     FilterTask("5", "notion", "todo", "urgent", Undefined, Iso(2000), Str("1970-01-01T00:00:02Z"))}

\* TaskFilterState
FilterStates ==
    [source : {"all", "notion", "todoist"},
     status : {"all", "todo", "in_progress", "done"},
     priority : {"all", "low", "medium", "high", "urgent"},
     sortBy : {"dueDate", "createdAt", "updatedAt", "priority"}]

\* a - b of two dates' getTime(), which sort reads as 0 when it is NaN
DateDiff(a, b) ==
    LET d == Minus(DateGetTime(a), DateGetTime(b))
    IN  IF "nan" \in DOMAIN d THEN 0 ELSE d.v

\* compareTasks with the tasks that have no due date put first
compareTasksNoDueFirst(a, b, sortBy) ==
    CASE sortBy = "dueDate" ->
            IF IsFalsy(a.dueDate) /\ IsFalsy(b.dueDate) THEN 0
            ELSE IF IsFalsy(a.dueDate) THEN -1
            ELSE IF IsFalsy(b.dueDate) THEN 1
            ELSE DateDiff(a.dueDate, b.dueDate)
      [] sortBy = "createdAt" -> DateDiff(b.createdAt, a.createdAt)
      [] sortBy = "updatedAt" -> DateDiff(b.updatedAt, a.updatedAt)
      [] sortBy = "priority" -> priorityOrder[a.priority] - priorityOrder[b.priority]
      [] OTHER -> 0

\* compareTasks with the priorities compared the other way round
compareTasksLowFirst(a, b, sortBy) ==
    CASE sortBy = "dueDate" ->
            IF IsFalsy(a.dueDate) /\ IsFalsy(b.dueDate) THEN 0
            ELSE IF IsFalsy(a.dueDate) THEN 1
            ELSE IF IsFalsy(b.dueDate) THEN -1
            ELSE DateDiff(a.dueDate, b.dueDate)
      [] sortBy = "createdAt" -> DateDiff(b.createdAt, a.createdAt)
      [] sortBy = "updatedAt" -> DateDiff(b.updatedAt, a.updatedAt)
      [] sortBy = "priority" -> priorityOrder[b.priority] - priorityOrder[a.priority]
      [] OTHER -> 0

\* The comparator of filtered.sort: switch (filters.sortBy)
compareTasks(a, b, sortBy) ==
    CASE sortBy = "dueDate" ->
            IF IsFalsy(a.dueDate) /\ IsFalsy(b.dueDate) THEN 0
            ELSE IF IsFalsy(a.dueDate) THEN 1
            ELSE IF IsFalsy(b.dueDate) THEN -1
            ELSE DateDiff(a.dueDate, b.dueDate)
      [] sortBy = "createdAt" -> DateDiff(b.createdAt, a.createdAt)
      [] sortBy = "updatedAt" -> DateDiff(b.updatedAt, a.updatedAt)
      [] sortBy = "priority" -> priorityOrder[a.priority] - priorityOrder[b.priority]
      [] OTHER -> 0

RECURSIVE insertBy(_, _, _)
\* x put into the sorted s behind every element that does not compare greater
insertBy(s, x, sortBy) ==
    IF s # <<>> /\ compareTasks(s[Len(s)], x, sortBy) > 0
    THEN insertBy(SubSeq(s, 1, Len(s) - 1), x, sortBy) \o <<s[Len(s)]>>
    ELSE s \o <<x>>

RECURSIVE sort(_, _)
\* filtered.sort(...): Array.prototype.sort is stable
sort(s, sortBy) ==
    IF s = <<>> THEN <<>> ELSE insertBy(sort(SubSeq(s, 1, Len(s) - 1), sortBy), s[Len(s)], sortBy)

\* filtered.filter(...) for one of the three filters: a new array, or `filtered` as it is
filterBy(filtered, field, wanted) ==
    IF wanted # "all" THEN SelectSeq(filtered, LAMBDA t : t[field] = wanted) ELSE filtered

\* applyFilters with the three filters combined by disjunction
applyFiltersAnyFilter(tasks, filters) ==
    LET Kept(t) ==
            \/ filters.source = "all" /\ filters.status = "all" /\ filters.priority = "all"
            \/ filters.source # "all" /\ t.source = filters.source
            \/ filters.status # "all" /\ t.status = filters.status
            \/ filters.priority # "all" /\ t.priority = filters.priority
    IN  [tasks |-> tasks, result |-> sort(SelectSeq(tasks, Kept), filters.sortBy)]

\* applyFilters with `let filtered = tasks`: the sort works on the caller's
\* array unless a filter has made a new one
applyFiltersInPlace(tasks, filters) ==
    LET bySource == filterBy(tasks, "source", filters.source)
        byStatus == filterBy(bySource, "status", filters.status)
        byPriority == filterBy(byStatus, "priority", filters.priority)
        sorted == sort(byPriority, filters.sortBy)
    IN  [tasks |-> IF filters.source = "all" /\ filters.status = "all" /\ filters.priority = "all"
                   THEN sorted ELSE tasks,
         result |-> sorted]

\* applyFilters(tasks, filters): the caller's array after the call and the
\* array returned.  `filtered` starts as a copy, each filter that is set makes
\* a new array of it, and the sort works in place on the last of these.
applyFilters(tasks, filters) ==
    LET filtered == tasks
        bySource == filterBy(filtered, "source", filters.source)
        byStatus == filterBy(bySource, "status", filters.status)
        byPriority == filterBy(byStatus, "priority", filters.priority)
    IN  [tasks |-> tasks, result |-> sort(byPriority, filters.sortBy)]

\* Arrays of up to MaxTasks tasks, each task once
TaskArrays ==
    {s \in UNION {[1..n -> MakeTasks] : n \in 0..MaxTasks} : \A i, k \in 1..Len(s) : i # k => s[i] # s[k]}

InitFilter ==
    /\ now = 0
    /\ cache = Null
    /\ env \in {e \in Envs : e.NOTION_API_KEY # "" /\ e.NOTION_DATABASE_ID # "" /\ e.TODOIST_API_TOKEN # ""}
    /\ client = "null"
    /\ call = [r \in Reqs |-> Idle]
    /\ conn = [r \in Reqs |-> [p \in Providers |-> NoConn]]
    /\ inbox \in {[tasks |-> s, filters |-> [source |-> "all", status |-> "all", priority |-> "all",
                                              sortBy |-> "updatedAt"]] : s \in TaskArrays}
    /\ done = None
    /\ written = FALSE
    /\ stale = {}

\* The user picks another value for one filter or for the sort order
SetFilters ==
    /\ \E filters \in FilterStates \ {inbox.filters} :
        /\ Cardinality({k \in DOMAIN filters : filters[k] # inbox.filters[k]}) = 1
        /\ inbox' = [inbox EXCEPT !.filters = filters]
    /\ done' = None
    /\ UNCHANGED <<now, cache, env, client, call, conn, written, stale>>

\* applyFilters(tasks, filters) is called and returns
ApplyFilters ==
    /\ done = None
    /\ LET out == applyFilters(inbox.tasks, inbox.filters)
       IN  /\ inbox' = [inbox EXCEPT !.tasks = out.tasks]
           /\ done' = [op |-> "applyFilters", ok |-> TRUE, v |-> out.result]
    /\ UNCHANGED <<now, cache, env, client, call, conn, written, stale>>

NextFilter == SetFilters \/ ApplyFilters

SpecFilter == InitFilter /\ [][NextFilter]_vars

----------------------------------------------------------------------------
(* Properties.  A step is told by what it changes: a request enters a      *)
(* service function when its idle activation starts or settles at once,    *)
(* and a service function settles when `done` is set.                      *)

\* Request r calls the service function `op` in this step
Enters(r, op) ==
    /\ call[r] = Idle
    /\ done = None
    /\ \/ call'[r].op = op
       \/ done' # None /\ done'.r = r /\ done'.op = op

\* The service function `op` of request r settles in this step
Settles(r, op) == done = None /\ done' # None /\ done'.r = r /\ done'.op = op

\* The instant a task was last updated, in ms
UpdatedAtMs(task) == DateGetTime(task.updatedAt).v

\* s and t hold the same records, each as often
SameRecords(s, t) ==
    /\ Len(s) = Len(t)
    /\ \A i \in 1..Len(s) :
        Cardinality({k \in 1..Len(s) : s[k] = s[i]}) = Cardinality({k \in 1..Len(t) : t[k] = s[i]})

\* s is in descending order of updatedAt
Descending(s) == \A i, k \in 1..Len(s) : i < k => UpdatedAtMs(s[i]) >= UpdatedAtMs(s[k])

\* s is t reordered so that records of one updatedAt keep t's order
TiesKeepOrder(s, t) ==
    /\ Len(s) = Len(t)
    /\ \E f \in Permutations(1..Len(t)) :
        /\ \A i \in 1..Len(t) : s[f[i]] = t[i]
        /\ \A i, k \in 1..Len(t) : (i < k /\ UpdatedAtMs(t[i]) = UpdatedAtMs(t[k])) => f[i] < f[k]

\* C1: when a snapshot is stored and its age is strictly under the 30000 ms TTL,
\* a getAllTasks call returns exactly the stored sequence, starts no connector
\* fetch and leaves the snapshot as it is.
C1_CacheHitReturnsSnapshot ==
    [][\A r \in Reqs :
        (Enters(r, "getAllTasks") /\ cache # Null /\ now - cache.timestamp < 30000)
        => /\ done' = [r |-> r, op |-> "getAllTasks", ok |-> TRUE, v |-> cache.tasks]
           /\ call' = call
           /\ conn' = conn
           /\ inbox' = inbox
           /\ cache' = cache]_vars

\* A getAllTasks call has just returned a non-empty snapshot that is 29999 ms old
C1_Witness ==
    /\ done # None
    /\ done.op = "getAllTasks"
    /\ cache # Null
    /\ now - cache.timestamp = 29999
    /\ done.v = cache.tasks
    /\ Len(done.v) > 0
    /\ \A p \in Providers : conn[done.r][p] = NoConn

\* C2: a getAllTasks call made when the snapshot's TTL has expired, or made
\* after a successful createTask/updateTask/deleteTask has returned (and no
\* getAllTasks call since), starts a fetch with every connector and returns
\* no stored snapshot.
C2_FreshFetchAfterExpiryOrWrite ==
    [][\A r \in Reqs :
        (Enters(r, "getAllTasks") /\ (written \/ (cache # Null /\ now - cache.timestamp >= 30000)))
        => /\ call'[r].op = "getAllTasks"
           /\ \A p \in Providers : conn'[r][p] # NoConn
           /\ done' = None]_vars

\* C3: on a cache miss where one connector's fetch fails and the other returns
\* N records, getAllTasks returns exactly those N records in descending order
\* of updatedAt.
C3_OneConnectorFails ==
    [][\A r \in Reqs : \A p \in Providers : \A q \in Providers \ {p} :
        (Settles(r, "getAllTasks") /\ conn[r][p].st = "rejected" /\ conn[r][q].st = "fulfilled")
        => /\ done'.ok
           /\ SameRecords(done'.v, conn[r][q].value)
           /\ Descending(done'.v)]_vars

\* getAllTasks has just returned the three records of Notion, out of the order
\* Notion listed them in, after a Todoist fetch that the provider failed
C3_Witness ==
    /\ done # None
    /\ done.op = "getAllTasks"
    /\ conn[done.r]["todoist"].st = "rejected"
    /\ conn[done.r]["todoist"].err.name = "HttpError"
    /\ conn[done.r]["notion"].st = "fulfilled"
    /\ Len(done.v) = 3
    /\ done.v # conn[done.r]["notion"].value

\* C4: getAllTasks never fails because connectors fail: whatever way the two
\* fetches settle it returns a sequence, the empty one when both failed.
C4_NeverFails ==
    \A r \in Reqs :
        (done # None /\ done.r = r /\ done.op = "getAllTasks")
        => /\ done.ok
           /\ done.v \in Seq({done.v[i] : i \in 1..Len(done.v)})
           /\ (\A p \in Providers : conn[r][p].st = "rejected") => done.v = <<>>

\* getAllTasks has just returned the empty sequence: Notion's credentials are
\* missing and Todoist's request failed
C4_Witness ==
    /\ done # None
    /\ done.op = "getAllTasks"
    /\ done.ok
    /\ done.v = <<>>
    /\ conn[done.r]["notion"] = Rejected(Error("NOTION_API_KEY environment variable is not set"))
    /\ conn[done.r]["todoist"].st = "rejected"
    /\ conn[done.r]["todoist"].err.name = "HttpError"

\* C5: the sequence a cache-miss getAllTasks returns is the one it stores: the
\* records of every connector that succeeded, Notion's before Todoist's, put in
\* descending order of updatedAt with records of one updatedAt left in that order.
C5_MergedSortedStable ==
    [][\A r \in Reqs :
        (Settles(r, "getAllTasks") /\ call[r].op = "getAllTasks")
        => LET fetched == (IF conn[r]["notion"].st = "fulfilled" THEN conn[r]["notion"].value ELSE <<>>)
                          \o (IF conn[r]["todoist"].st = "fulfilled" THEN conn[r]["todoist"].value ELSE <<>>)
           IN  /\ done'.v = cache'.tasks
               /\ cache'.timestamp = now
               /\ Descending(done'.v)
               /\ TiesKeepOrder(done'.v, fetched)]_vars

\* getAllTasks has just returned five records of both providers, out of the
\* order they were fetched in, a Notion record and next to it a Todoist record
\* updated at one instant
C5_Witness ==
    /\ done # None
    /\ done.op = "getAllTasks"
    /\ cache # Null
    /\ cache.tasks = done.v
    /\ conn[done.r]["notion"].st = "fulfilled"
    /\ conn[done.r]["todoist"].st = "fulfilled"
    /\ Len(done.v) = 5
    /\ done.v # conn[done.r]["notion"].value \o conn[done.r]["todoist"].value
    /\ \E i \in 1..4 :
        /\ UpdatedAtMs(done.v[i]) = UpdatedAtMs(done.v[i + 1])
        /\ done.v[i].source = "notion"
        /\ done.v[i + 1].source = "todoist"

\* C6: createTask, updateTask or deleteTask called with an origin that is
\* neither "notion" nor "todoist" fails at once with the unsupported-origin
\* error, starts no connector call and leaves the cache as it is.
C6_UnsupportedOrigin ==
    [][\A r \in Reqs : \A task \in TaskStubs :
        (/\ task.source \notin {"notion", "todoist"}
         /\ \/ \E input \in CreateInputs : CreateTask(r, task.source, input)
            \/ \E updates \in UpdateInputs : UpdateTask(r, task, updates)
            \/ DeleteTask(r, task))
        => /\ done' # None
           /\ done'.r = r
           /\ ~done'.ok
           /\ done'.err.name = "Error"
           /\ done'.err.message = "Unsupported task source: " \o task.source
           /\ call' = call
           /\ conn' = conn
           /\ inbox' = inbox
           /\ cache' = cache]_vars

\* updateTask has just failed for the origin "trello" with a snapshot stored
C6_Witness ==
    /\ done # None
    /\ done.op = "updateTask"
    /\ ~done.ok
    /\ done.err.message = "Unsupported task source: trello"
    /\ cache # Null
    /\ \A p \in Providers : conn[done.r][p] = NoConn

\* The origin a write was called with
OriginOf(c) == IF c.op = "createTask" THEN c.source ELSE c.task.source

\* The connector function each write calls, by origin
ConnectorOf(op, origin) ==
    CASE op = "createTask" -> IF origin = "notion" THEN "createNotionTask" ELSE "createTodoistTask"
      [] op = "updateTask" -> IF origin = "notion" THEN "updateNotionTask" ELSE "updateTodoistTask"
      [] op = "deleteTask" -> IF origin = "notion" THEN "deleteNotionTask" ELSE "deleteTodoistTask"

\* The record id a connector's request names
IdSent(c, origin) == IF origin = "notion" THEN Get(c.arg, "page_id") ELSE Get(c.arg, "id")

\* C7: while a write is in flight, the connector of its origin and no other has
\* been called, it is the connector function of that write, and every request
\* of updateTask and deleteTask names task.sourceId as it was passed in.
C7_WriteRoutedByOrigin ==
    \A r \in Reqs :
        call[r].op \in Writes
        => LET origin == OriginOf(call[r])
           IN  /\ origin \in Providers
               /\ conn[r][origin] # NoConn
               /\ \A q \in Providers \ {origin} : conn[r][q] = NoConn
               /\ conn[r][origin].st = "pending"
                  => /\ conn[r][origin].fn = ConnectorOf(call[r].op, origin)
                     /\ call[r].op # "createTask" => IdSent(conn[r][origin], origin) = call[r].task.sourceId

\* updateTask of the Todoist task t2 is closing it at Todoist; Notion's connector was not called
C7_Witness ==
    \E r \in Reqs :
        /\ call[r].op = "updateTask"
        /\ call[r].task = [source |-> "todoist", sourceId |-> Str("t2")]
        /\ conn[r]["todoist"].st = "pending"
        /\ conn[r]["todoist"].api = "closeTask"
        /\ Get(conn[r]["todoist"].arg, "id") = Str("t2")
        /\ conn[r]["notion"] = NoConn

\* C8: when createTask, updateTask or deleteTask has returned successfully,
\* the cache slot is empty.
C8_SuccessfulWriteEmptiesCache ==
    \A r \in Reqs :
        (done # None /\ done.r = r /\ done.op \in {"createTask", "updateTask", "deleteTask"} /\ done.ok)
        => cache = Null

\* deleteTask has just returned after Notion archived the page
C8_Witness ==
    /\ done # None
    /\ done.op = "deleteTask"
    /\ done.ok
    /\ conn[done.r]["notion"].st = "fulfilled"
    /\ cache = Null
    /\ now > 0

\* C9: when the connector call of a write fails, the write fails with the
\* connector's error, and no step of the write, from its call to its failure,
\* changes the cache slot.
C9_FailedWriteKeepsCache ==
    [][\A r \in Reqs :
        /\ \A p \in Providers :
            (/\ \E op \in {"createTask", "updateTask", "deleteTask"} : Settles(r, op)
             /\ conn[r][p].st = "rejected")
            => /\ ~done'.ok
               /\ done'.err = conn[r][p].err
               /\ cache' = cache
        /\ (/\ call'[r].op \in {"createTask", "updateTask", "deleteTask"}
            /\ call'[r] # call[r] \/ conn'[r] # conn[r])
           => cache' = cache]_vars

\* createTask has just failed with the provider's error and the snapshot is still stored
C9_Witness ==
    /\ done # None
    /\ done.op = "createTask"
    /\ ~done.ok
    /\ \E p \in Providers :
        /\ conn[done.r][p].st = "rejected"
        /\ conn[done.r][p].err = done.err
        /\ done.err.name = "HttpError"
    /\ cache # Null
    /\ Len(cache.tasks) > 0

\* The status a provider's helper reads from an error
StatusRead(p, e) == IF p = "todoist" /\ e.httpStatusCode # {} THEN e.httpStatusCode ELSE e.status

\* The retries a provider's helper allows
MaxRetriesOf(p) == IF p = "notion" THEN NOTION_MAX_RETRIES ELSE TODOIST_MAX_RETRIES

\* C10: a call under either provider's retry helper that fails with status 429
\* or a status of 500 or more, with retries left, is made again; and when the
\* call succeeds, on the first attempt or on any later one, the helper returns
\* that success value.
C10_RetryThenSuccess ==
    [][\A r \in Reqs : \A p \in Providers :
        (inbox # None /\ inbox.r = r /\ inbox.p = p /\ inbox' = None)
        => /\ (/\ ~inbox.answer.ok
               /\ conn[r][p].attempt < MaxRetriesOf(p)
               /\ \E n \in StatusRead(p, inbox.answer.v) : n = 429 \/ n >= 500)
              => /\ conn'[r][p].st = "pending"
                 /\ conn'[r][p].wr = None
                 /\ conn'[r][p].attempt = conn[r][p].attempt + 1
                 /\ conn'[r][p].api = conn[r][p].api
                 /\ conn'[r][p].arg = conn[r][p].arg
           /\ inbox.answer.ok
              => /\ conn'[r][p].wr = [st |-> "returned", v |-> inbox.answer.v]
                 /\ conn'[r][p].attempt = conn[r][p].attempt]_vars

\* Todoist's helper has returned the value of its sixth call, after five retried failures
C10_Witness ==
    \E r \in Reqs :
        /\ conn[r]["todoist"].st = "pending"
        /\ conn[r]["todoist"].attempt = 5
        /\ conn[r]["todoist"].wr # None
        /\ conn[r]["todoist"].wr.st = "returned"

\* The helper of provider p takes the settled call of request r in this step
Handles(r, p) == inbox # None /\ inbox.r = r /\ inbox.p = p /\ inbox' = None

\* The status read from error e is 429 or a number of 500 or more
IsRetryableError(p, e) == \E n \in StatusRead(p, e) : n = 429 \/ n >= 500

\* C11: a call is made at most six times (attempt 0 and five retries); a
\* retryable failure of one of the first five calls leads to the next call,
\* and the failure of the sixth call ends the helper, which throws the error
\* of that sixth call.
C11_RetriesExhausted ==
    [][\A r \in Reqs : \A p \in Providers :
        /\ conn[r][p].st = "pending" => conn[r][p].attempt <= 5
        /\ (Handles(r, p) /\ ~inbox.answer.ok /\ IsRetryableError(p, inbox.answer.v))
           => IF conn[r][p].attempt < 5
              THEN /\ conn'[r][p].wr = None
                   /\ conn'[r][p].attempt = conn[r][p].attempt + 1
              ELSE /\ conn'[r][p].wr = [st |-> "threw", v |-> inbox.answer.v]
                   /\ conn'[r][p].attempt = 5]_vars

\* Notion's helper has thrown the 503 of the sixth call
C11_Witness ==
    \E r \in Reqs :
        /\ conn[r]["notion"].st = "pending"
        /\ conn[r]["notion"].attempt = 5
        /\ conn[r]["notion"].wr = [st |-> "threw", v |-> HttpError({}, {503})]

\* C12: a call that fails with an error whose status is absent or is neither
\* 429 nor 500 or more is not made again: the helper throws that error in the
\* same step, with no backoff delay, whatever number of retries went before.
C12_NonRetryableThrowsAtOnce ==
    [][\A r \in Reqs : \A p \in Providers :
        (Handles(r, p) /\ ~inbox.answer.ok /\ ~IsRetryableError(p, inbox.answer.v))
        => /\ conn'[r][p].wr = [st |-> "threw", v |-> inbox.answer.v]
           /\ conn'[r][p].attempt = conn[r][p].attempt
           /\ conn'[r][p].delay = conn[r][p].delay]_vars

\* Todoist's helper has thrown a 404 that came after two retried failures
C12_Witness ==
    \E r \in Reqs :
        /\ conn[r]["todoist"].st = "pending"
        /\ conn[r]["todoist"].attempt = 2
        /\ conn[r]["todoist"].wr = [st |-> "threw", v |-> HttpError({404}, {})]

\* The base delay of a provider's helper, in ms
BaseDelayOf(p) == IF p = "notion" THEN 400 ELSE 500

\* C13: the delay before retry n (n = 0, 1, ...) of a call is the provider's
\* base delay, 400 ms for Notion and 500 ms for Todoist, doubled n times.
C13_BackoffDoubles ==
    [][\A r \in Reqs : \A p \in Providers :
        (Handles(r, p) /\ conn'[r][p].attempt = conn[r][p].attempt + 1)
        => conn'[r][p].delay = BaseDelayOf(p) * <<1, 2, 4, 8, 16>>[conn[r][p].attempt + 1]]_vars

\* Notion's helper waits 6400 ms before its fifth retry
C13_Witness ==
    \E r \in Reqs :
        /\ conn[r]["notion"].st = "pending"
        /\ conn[r]["notion"].attempt = 5
        /\ conn[r]["notion"].delay = 6400
        /\ conn[r]["notion"].wr = None

\* Request r is inside updateTodoistTask, awaiting the call `api`
InTodoistUpdate(r, api) ==
    /\ conn[r]["todoist"].st = "pending"
    /\ conn[r]["todoist"].fn = "updateTodoistTask"
    /\ conn[r]["todoist"].api = api

\* updateTodoistTask of request r goes on from an await in this step
TodoistUpdateResumes(r) ==
    /\ conn[r]["todoist"].st = "pending"
    /\ conn[r]["todoist"].fn = "updateTodoistTask"
    /\ conn[r]["todoist"].wr # None
    /\ conn'[r]["todoist"] # conn[r]["todoist"]

\* Request r's Todoist connector makes the first invocation of `api` in this step
Issues(r, api) ==
    /\ conn'[r]["todoist"].st = "pending"
    /\ conn'[r]["todoist"].api = api
    /\ conn'[r]["todoist"].attempt = 0
    /\ conn'[r]["todoist"].wr = None
    /\ ~(conn[r]["todoist"].st = "pending" /\ conn[r]["todoist"].api = api)

\* The status the update of request r sets
StatusSet(r) == Get(call[r].updates, "status")

\* C14: on Todoist, closeTask is first invoked only by an update that sets
\* status to done, and only when its updateTask call has returned; every such
\* update goes on to closeTask once updateTask has returned; after closeTask
\* the update makes no call but retries of closeTask; and when updateTask has
\* thrown, the update rejects with that error and calls neither closeTask nor
\* reopenTask.
C14_CloseAfterFieldUpdate ==
    [][\A r \in Reqs :
        /\ Issues(r, "closeTask")
           => /\ InTodoistUpdate(r, "updateTask")
              /\ conn[r]["todoist"].wr # None
              /\ conn[r]["todoist"].wr.st = "returned"
              /\ StatusSet(r) = Str("done")
              /\ Get(conn'[r]["todoist"].arg, "id") = call[r].task.sourceId
        /\ (TodoistUpdateResumes(r) /\ InTodoistUpdate(r, "updateTask"))
           => IF conn[r]["todoist"].wr.st = "threw"
              THEN conn'[r]["todoist"] = [st |-> "rejected", err |-> conn[r]["todoist"].wr.v]
              ELSE StatusSet(r) = Str("done") => Issues(r, "closeTask")
        /\ (InTodoistUpdate(r, "closeTask") /\ conn'[r]["todoist"] # conn[r]["todoist"])
           => \/ conn'[r]["todoist"].st \in {"fulfilled", "rejected", "none"}
              \/ /\ conn'[r]["todoist"].api = "closeTask"
                 /\ conn'[r]["todoist"].attempt >= conn[r]["todoist"].attempt]_vars

\* An update to done has had its closeTask call answered, after a retry
C14_Witness ==
    \E r \in Reqs :
        /\ InTodoistUpdate(r, "closeTask")
        /\ StatusSet(r) = Str("done")
        /\ conn[r]["todoist"].attempt = 1
        /\ conn[r]["todoist"].wr = [st |-> "returned", v |-> Bool(TRUE)]

\* C15: on Todoist, reopenTask is first invoked only after the updateTask call
\* of an update that sets status to todo or in_progress on a task the provider
\* held as completed; an update of a task that is not completed invokes none.
C15_ReopenOnlyOutOfDone ==
    [][\A r \in Reqs :
        Issues(r, "reopenTask")
        => /\ InTodoistUpdate(r, "updateTask")
           /\ conn[r]["todoist"].wr # None
           /\ conn[r]["todoist"].wr.st = "returned"
           /\ StatusSet(r) \in {Str("todo"), Str("in_progress")}
           /\ Get(conn[r]["todoist"].wr.v, "isCompleted") = Bool(TRUE)]_vars

\* What holds of reopenTask: it is first invoked exactly by the updates that
\* set status to todo or in_progress, once their updateTask call has returned,
\* whether the task was completed or not.
C15_ReopenOnActiveStatus ==
    [][\A r \in Reqs :
        /\ Issues(r, "reopenTask")
           => /\ InTodoistUpdate(r, "updateTask")
              /\ conn[r]["todoist"].wr # None
              /\ conn[r]["todoist"].wr.st = "returned"
              /\ StatusSet(r) \in {Str("todo"), Str("in_progress")}
        /\ (/\ TodoistUpdateResumes(r)
            /\ InTodoistUpdate(r, "updateTask")
            /\ conn[r]["todoist"].wr.st = "returned"
            /\ StatusSet(r) \in {Str("todo"), Str("in_progress")})
           => Issues(r, "reopenTask")]_vars

\* Request r is inside updateNotionTask, awaiting its call
InNotionUpdate(r) ==
    /\ call[r] # Idle
    /\ call[r].op = "updateTask"
    /\ call[r].task.source = "notion"
    /\ conn[r]["notion"].st = "pending"

\* The Status name Notion takes for a unified status
NotionNameOf(status) ==
    CASE status = Str("done") -> Str("Done")
      [] status = Str("in_progress") -> Str("In Progress")
      [] status = Str("todo") -> Str("To Do")

\* C16: an update of a Notion task makes one call, pages.update for the
\* task's page, whose properties carry Status with the mapped name exactly
\* when the update sets a status; when that call has settled the update
\* settles without another call, and it never calls Todoist (no closeTask,
\* no reopenTask), whichever fields are updated.
C16_NotionUpdateIsOneCall ==
    [][\A r \in Reqs :
        InNotionUpdate(r)
        => /\ conn[r]["notion"].api = "pages.update"
           /\ Get(conn[r]["notion"].arg, "page_id") = call[r].task.sourceId
           /\ LET properties == Get(conn[r]["notion"].arg, "properties")
              IN  IF StatusSet(r) = Undefined
                  THEN ~HasKey(properties, "Status")
                  ELSE Get(Get(Get(properties, "Status"), "status"), "name") = NotionNameOf(StatusSet(r))
           /\ conn[r]["todoist"] = [st |-> "none"]
           /\ conn'[r]["todoist"] = [st |-> "none"]
           /\ conn'[r]["notion"] # conn[r]["notion"]
              => IF conn[r]["notion"].wr = None
                 THEN /\ conn'[r]["notion"].st = "pending"
                      /\ conn'[r]["notion"].api = "pages.update"
                      /\ conn'[r]["notion"].arg = conn[r]["notion"].arg
                 ELSE conn'[r]["notion"].st \in {"fulfilled", "rejected"}]_vars

\* An update setting status in_progress and a title has had its one call answered
C16_Witness ==
    \E r \in Reqs :
        /\ InNotionUpdate(r)
        /\ StatusSet(r) = Str("in_progress")
        /\ conn[r]["notion"].wr # None
        /\ conn[r]["notion"].wr.st = "returned"

\* Request r is inside fetchNotionTasks, awaiting a query
InNotionFetch(r) == conn[r]["notion"].st = "pending" /\ conn[r]["notion"].fn = "fetchNotionTasks"

\* The entries of a query response that are page records with properties
PagesOf(response) ==
    LET IsPage(e) == /\ "object" \in DOMAIN e.v
                     /\ e.v["object"] = Str("page")
                     /\ "properties" \in DOMAIN e.v
    IN  SelectSeq(Get(response, "results").v, IsPage)

\* The response names a cursor to go on from
HasNext(response) ==
    /\ Get(response, "has_more") = Bool(TRUE)
    /\ Get(response, "next_cursor").t = "string"
    /\ Get(response, "next_cursor").v # ""

\* C17: fetchNotionTasks starts with a query that names no cursor; as long as
\* a response has more and names a next cursor it makes one more query, which
\* names that cursor; and on the last response it returns, in the order of
\* the pages and of the entries in them, the normalized record of every
\* entry of every response that is a page record with properties, and of no
\* other entry.
C17_FollowsCursors ==
    [][\A r \in Reqs :
        /\ (conn[r]["notion"].st = "none" /\ conn'[r]["notion"].st = "pending"
                /\ conn'[r]["notion"].fn = "fetchNotionTasks")
           => /\ conn'[r]["notion"].arg = Obj([page_size |-> Num(100)])
              /\ conn'[r]["notion"].acc = <<>>
        /\ (/\ InNotionFetch(r)
            /\ conn[r]["notion"].wr # None
            /\ conn[r]["notion"].wr.st = "returned"
            /\ conn'[r]["notion"] # conn[r]["notion"])
           => LET response == conn[r]["notion"].wr.v
                  pages == conn[r]["notion"].acc \o PagesOf(response)
              IN  IF HasNext(response)
                  THEN /\ conn'[r]["notion"].st = "pending"
                       /\ conn'[r]["notion"].api = "databases.query"
                       /\ conn'[r]["notion"].arg
                            = Obj([page_size |-> Num(100), start_cursor |-> Get(response, "next_cursor")])
                       /\ conn'[r]["notion"].attempt = 0
                       /\ conn'[r]["notion"].wr = None
                       /\ conn'[r]["notion"].acc = pages
                  ELSE /\ conn'[r]["notion"].st = "fulfilled"
                       /\ Len(conn'[r]["notion"].value) = Len(pages)
                       /\ \A i \in 1..Len(pages) :
                            /\ conn'[r]["notion"].value[i].sourceId = Get(pages[i], "id")
                            /\ conn'[r]["notion"].value[i] = notionPageToTask(pages[i], now).v]_vars

\* A listing of two pages, five entries in all, has been fetched: the three
\* page records with properties are returned in page order
C17_Witness ==
    \E r \in Reqs :
        /\ conn[r]["notion"].st = "fulfilled"
        /\ call[r] # Idle
        /\ call[r].op = "getAllTasks"
        /\ Len(conn[r]["notion"].value) = 3
        /\ conn[r]["notion"].value[1].sourceId = Str("n3")
        /\ conn[r]["notion"].value[2].sourceId = Str("n2")
        /\ conn[r]["notion"].value[3].sourceId = Str("n1")

\* Request r is inside getAllTasks, past a cache miss
Fetching(r) == call[r] # Idle /\ call[r].op = "getAllTasks"

\* C18: on a cache miss getAllTasks starts both fetches in one step, storing
\* and returning nothing; it returns only when both fetches have settled, and
\* a snapshot is stored only then; until then a settled fetch keeps its
\* outcome and a pending one stays in flight whatever became of the other;
\* and what it returns and stores holds every record of each fulfilled fetch.
C18_JoinsBothFetches ==
    [][\A r \in Reqs :
        /\ (call[r] = Idle /\ call'[r] # Idle /\ call'[r].op = "getAllTasks")
           => /\ \A p \in Providers : conn[r][p].st = "none" /\ conn'[r][p].st # "none"
              /\ conn'[r]["notion"].st = "pending" => conn'[r]["notion"].fn = "fetchNotionTasks"
              /\ conn'[r]["todoist"].st = "pending" => conn'[r]["todoist"].fn = "fetchTodoistTasks"
              /\ cache' = cache
              /\ done' = None
        /\ (Fetching(r) /\ call'[r] = call[r])
           => /\ done' = None \/ done'.r # r
              /\ \A p \in Providers :
                    /\ conn[r][p].st \in {"fulfilled", "rejected"} => conn'[r][p] = conn[r][p]
                    /\ conn[r][p].st = "pending" => conn'[r][p].st \in {"pending", "fulfilled", "rejected"}
        /\ (Fetching(r) /\ call'[r] # call[r])
           => /\ \A p \in Providers : conn[r][p].st \in {"fulfilled", "rejected"}
              /\ done' # None /\ done'.r = r /\ done'.ok
              /\ cache' = [tasks |-> done'.v, timestamp |-> now]
              /\ Len(done'.v) = Len(IF conn[r]["notion"].st = "fulfilled" THEN conn[r]["notion"].value ELSE <<>>)
                                + Len(IF conn[r]["todoist"].st = "fulfilled" THEN conn[r]["todoist"].value ELSE <<>>)
              /\ \A p \in Providers :
                    conn[r][p].st = "fulfilled"
                    => \A i \in 1..Len(conn[r][p].value) :
                          \E k \in 1..Len(done'.v) : done'.v[k] = conn[r][p].value[i]
        /\ (cache' # cache /\ cache' # Null)
           => \E q \in Reqs : Fetching(q) /\ call'[q] = Idle]_vars

\* getAllTasks has returned the two Todoist records although the Notion
\* fetch failed with a 404
C18_Witness ==
    \E r \in Reqs :
        /\ done # None /\ done.r = r /\ done.op = "getAllTasks" /\ done.ok
        /\ conn[r]["notion"] = [st |-> "rejected", err |-> HttpError({}, {404})]
        /\ conn[r]["todoist"].st = "fulfilled"
        /\ Len(conn[r]["todoist"].value) = 2
        /\ Len(done.v) = 2
        /\ cache # Null /\ cache.tasks = done.v

\* The fields of a unified task
TaskFields ==
    {"id", "source", "sourceId", "title", "description", "status", "priority", "dueDate", "createdAt",
     "updatedAt", "labels", "projectName"}

\* c is an empty slot, or one snapshot taken no later than t: whole task
\* records in descending order of updatedAt and the instant of capture
WholeSnapshot(c, t) ==
    \/ c = Null
    \/ /\ DOMAIN c = {"tasks", "timestamp"}
       /\ c.timestamp \in 0..t
       /\ \A i \in 1..Len(c.tasks) :
            /\ DOMAIN c.tasks[i] = TaskFields
            /\ c.tasks[i].source \in {"notion", "todoist"}
       /\ \A i, k \in 1..Len(c.tasks) :
            i < k => DateGetTime(c.tasks[i].updatedAt).v >= DateGetTime(c.tasks[k].updatedAt).v

\* What the fetch of provider p brought request r
FetchedBy(r, p) == IF conn[r][p].st = "fulfilled" THEN conn[r][p].value ELSE <<>>

\* C19: in every state, with requests interleaved, the cache slot is empty or
\* holds one whole snapshot; and a step that changes the slot either empties
\* it or puts in, at once, the records of both settled fetches of one
\* getAllTasks call, merged and sorted, with the instant of the step.
C19_CacheHoldsWholeSnapshots ==
    [][/\ WholeSnapshot(cache, now)
       /\ WholeSnapshot(cache', now')
       /\ (cache' # cache /\ cache' # Null)
          => \E r \in Reqs :
                /\ Fetching(r) /\ call'[r] = Idle
                /\ \A p \in Providers : conn[r][p].st \in {"fulfilled", "rejected"}
                /\ cache'.timestamp = now
                /\ SameRecords(cache'.tasks, FetchedBy(r, "notion") \o FetchedBy(r, "todoist"))]_vars

\* A snapshot of both providers' records is stored while a write of the
\* other request is in flight
C19_Witness ==
    /\ cache # Null
    /\ \E i, k \in 1..Len(cache.tasks) : cache.tasks[i].source = "notion" /\ cache.tasks[k].source = "todoist"
    /\ \E r \in Reqs : call[r] # Idle /\ call[r].op \in Writes

\* A normalizer has been called on the record at hand
NormalizerCalled(op) == done # None /\ done.op = op

\* C20: whatever the raw record, with properties or nested elements missing,
\* null or wrong-typed, notionPageToTask and todoistItemToTask return a task.
C20_NormalizersNeverRaise ==
    (NormalizerCalled("notionPageToTask") \/ NormalizerCalled("todoistItemToTask"))
    => done.ok /\ DOMAIN done.v = TaskFields

\* What holds: todoistItemToTask returns a task for every raw item, and
\* notionPageToTask for every raw page but those with a null element in a
\* rich-text or multi_select array or a status name that is no string.
C20_RaisesOnlyOnNestedValues ==
    /\ NormalizerCalled("todoistItemToTask") => done.ok /\ DOMAIN done.v = TaskFields
    /\ NormalizerCalled("notionPageToTask")
       => LET props == Get(inbox.answer.v, "properties")
              hasNull(x) == x.t = "array" /\ \E i \in 1..Len(x.v) : x.v[i] = Null
              name == GetOpt(GetOpt(Get(props, "Status"), "status"), "name")
              bad == \/ hasNull(GetOpt(Get(props, "Name"), "title"))
                     \/ hasNull(GetOpt(Get(props, "Tags"), "multi_select"))
                     \/ name = Num(5)
          IN  IF bad THEN ~done.ok /\ done.err.name = "TypeError"
              ELSE done.ok /\ DOMAIN done.v = TaskFields

\* The raw record at hand
RawRecord == inbox.answer.v

\* Normalizer `op` has returned a task for the record at hand
Produced(op) == done # None /\ done.op = op /\ done.ok

\* The text of one rich-text fragment
FragmentText(e) ==
    IF e.t = "object" /\ "plain_text" \in DOMAIN e.v /\ e.v["plain_text"].t = "string"
    THEN e.v["plain_text"].v ELSE ""

\* The fragments of a rich-text array of up to two fragments, joined in order
Joined(x) ==
    IF x.t # "array" \/ Len(x.v) = 0 THEN ""
    ELSE IF Len(x.v) = 1 THEN FragmentText(x.v[1])
    ELSE FragmentText(x.v[1]) \o FragmentText(x.v[2])

\* The title array of the raw page at hand (Undefined when there is none)
RawTitle == GetOpt(Get(Get(RawRecord, "properties"), "Name"), "title")

\* C21: every task a normalizer produces has a non-empty title: for Notion
\* the rich-text fragments joined in order with nothing between them, for
\* Todoist the content, and 'Untitled' when that is empty or missing.
C21_TitleNeverEmpty ==
    /\ Produced("notionPageToTask")
       => done.v.title = Str(IF Joined(RawTitle) = "" THEN "Untitled" ELSE Joined(RawTitle))
    /\ (Produced("todoistItemToTask") /\ Get(RawRecord, "content").t \in {"undefined", "null", "string"})
       => /\ done.v.title.t = "string"
          /\ done.v.title.v # ""
          /\ done.v.title = IF Get(RawRecord, "content") \in {Undefined, Null, Str("")}
                            THEN Str("Untitled") ELSE Get(RawRecord, "content")

\* What holds of titles: Notion's is the joined fragments or 'Untitled';
\* Todoist's is 'Untitled' for a missing or null content and the content as
\* it is otherwise, the empty string included.
C21_TitleOfTodoistMayBeEmpty ==
    /\ Produced("notionPageToTask")
       => done.v.title = Str(IF Joined(RawTitle) = "" THEN "Untitled" ELSE Joined(RawTitle))
    /\ Produced("todoistItemToTask")
       => done.v.title = IF Get(RawRecord, "content") \in {Undefined, Null}
                         THEN Str("Untitled") ELSE Get(RawRecord, "content")

\* The multi_select array of the raw page at hand (Undefined when there is none)
RawMultiSelect == GetOpt(Get(Get(RawRecord, "properties"), "Tags"), "multi_select")

\* C22: the labels of every task a normalizer produces are absent or a
\* sequence of one label or more, never an empty sequence.
C22_LabelsAbsentOrNonEmpty ==
    (Produced("notionPageToTask") \/ Produced("todoistItemToTask"))
    => \/ done.v.labels = Undefined
       \/ done.v.labels.t = "array" /\ Len(done.v.labels.v) > 0

\* What holds of labels: Todoist's are absent unless the item has a
\* non-empty array, which is kept; Notion's are absent unless the page has a
\* multi_select array, whose names are kept, be there none at all.
C22_NotionKeepsEmptyLabels ==
    /\ Produced("todoistItemToTask")
       => done.v.labels = IF Get(RawRecord, "labels").t = "array" /\ Len(Get(RawRecord, "labels").v) > 0
                          THEN Get(RawRecord, "labels") ELSE Undefined
    /\ Produced("notionPageToTask")
       => IF RawMultiSelect.t = "array"
          THEN /\ done.v.labels.t = "array"
               /\ Len(done.v.labels.v) = Len(RawMultiSelect.v)
               /\ \A i \in 1..Len(RawMultiSelect.v) : done.v.labels.v[i] = RawMultiSelect.v[i].v["name"]
          ELSE done.v.labels = Undefined

\* The status name and the priority name of the raw page at hand
RawStatusName == GetOpt(GetOpt(Get(Get(RawRecord, "properties"), "Status"), "status"), "name")

RawPriorityName == GetOpt(GetOpt(Get(Get(RawRecord, "properties"), "Priority"), "select"), "name")

\* C23: every task a normalizer produces has a status among todo,
\* in_progress, done and a priority among low, medium, high, urgent; a Notion
\* page with no status name, or with one that is no synonym, gets todo, and
\* one with no priority name, or with one that is no synonym, gets medium.
C23_EnumsFailClosed ==
    /\ (Produced("notionPageToTask") \/ Produced("todoistItemToTask"))
       => /\ done.v.status \in {"todo", "in_progress", "done"}
          /\ done.v.priority \in {"low", "medium", "high", "urgent"}
    /\ Produced("notionPageToTask")
       => /\ RawStatusName \in {Undefined, Null, Str(""), Str("To Do"), Str("Blocked"), Str("in  progress"),
                                Str("do ne"), Str(" ")}
             => done.v.status = "todo"
          /\ RawPriorityName \in {Undefined, Null, Str(""), Str("Medium"), Str("P1"), Str("hi gh")}
             => done.v.priority = "medium"

\* A page whose status is 'Blocked' and whose priority is 'P1' has become a
\* task that is todo and medium
C23_Witness ==
    /\ Produced("notionPageToTask")
    /\ RawStatusName = Str("Blocked")
    /\ RawPriorityName = Str("P1")
    /\ done.v.status = "todo"
    /\ done.v.priority = "medium"

\* C24: Notion's status and priority names are matched whatever their case
\* and the blanks around them: done, complete, completed give done; in
\* progress, in_progress, doing, started give in_progress; urgent, critical
\* give urgent; high gives high; low gives low.
C24_SynonymsAnyCase ==
    Produced("notionPageToTask")
    => /\ RawStatusName \in {Str("Done"), Str("done"), Str(" DONE "), Str("Complete"), Str("COMPLETED"),
                             Str("completed\n")}
          => done.v.status = "done"
       /\ RawStatusName \in {Str("In Progress"), Str("in progress"), Str("IN_PROGRESS"), Str("\tDoing"),
                             Str("Started ")}
          => done.v.status = "in_progress"
       /\ RawPriorityName \in {Str("Urgent"), Str(" urgent"), Str("CRITICAL"), Str("Critical\t")}
          => done.v.priority = "urgent"
       /\ RawPriorityName \in {Str("High"), Str(" HIGH ")} => done.v.priority = "high"
       /\ RawPriorityName \in {Str("Low"), Str("low ")} => done.v.priority = "low"

\* A page whose status is 'Started ' and whose priority is 'Critical' and a
\* tab has become a task that is in_progress and urgent
C24_Witness ==
    /\ Produced("notionPageToTask")
    /\ RawStatusName = Str("Started ")
    /\ RawPriorityName = Str("Critical\t")
    /\ done.v.status = "in_progress"
    /\ done.v.priority = "urgent"

\* C25: Todoist's priority 4 gives urgent, 3 high, 2 medium, and 1 and every
\* other value (none, null, 0, 5, -1, 2.5, NaN, a string, a boolean) low.
C25_TodoistPriority ==
    Produced("todoistItemToTask")
    => done.v.priority = CASE Get(RawRecord, "priority") = Num(4) -> "urgent"
                           [] Get(RawRecord, "priority") = Num(3) -> "high"
                           [] Get(RawRecord, "priority") = Num(2) -> "medium"
                           [] OTHER -> "low"

\* An item of priority 2.5 has become a task of low priority
C25_Witness ==
    /\ Produced("todoistItemToTask")
    /\ Get(RawRecord, "priority") = Frac(2, 5)
    /\ done.v.priority = "low"

\* C26: a Todoist item whose isCompleted is true becomes a done task, one
\* whose isCompleted is false or missing a todo task, and no item becomes an
\* in_progress task.
C26_CompletedFlag ==
    Produced("todoistItemToTask")
    => /\ done.v.status \in {"todo", "done"}
       /\ Get(RawRecord, "isCompleted") = Bool(TRUE) => done.v.status = "done"
       /\ Get(RawRecord, "isCompleted") \in {Bool(FALSE), Undefined} => done.v.status = "todo"

\* An item whose isCompleted is false has become a todo task
C26_Witness ==
    /\ Produced("todoistItemToTask")
    /\ Get(RawRecord, "isCompleted") = Bool(FALSE)
    /\ done.v.status = "todo"

\* C27: normalizing the record at hand again gives the task it gave before,
\* field for field, also when the record has no creation or edit timestamp.
C27_NormalizingTwiceSame ==
    [][(/\ done # None /\ done.ok
        /\ done' # None /\ done'.ok
        /\ inbox' = inbox)
       => done'.v = done.v]_vars

\* What holds of normalizing twice: a record that has its creation timestamp
\* gives the same task at whatever instant it is normalized.
C27_SameWhenStamped ==
    /\ (Produced("notionPageToTask") /\ Get(RawRecord, "created_time") \notin {Undefined, Null})
       => \A t \in {0, 1000, CACHE_TTL_MS - 1, CACHE_TTL_MS} :
             notionPageToTask(RawRecord, t) = [thrown |-> FALSE, v |-> done.v]
    /\ (Produced("todoistItemToTask") /\ Get(RawRecord, "createdAt") \notin {Undefined, Null})
       => \A t \in {0, 1000, CACHE_TTL_MS - 1, CACHE_TTL_MS} :
             todoistItemToTask(RawRecord, t) = [thrown |-> FALSE, v |-> done.v]

\* The update whose fields the provider has applied to the record at hand
UpdateApplied == call["r1"].updates

\* C28: when a status and a priority are written to Notion as the names the
\* connector sends (To Do, In Progress, Done; Low, Medium, High, Urgent) and
\* the page is normalized, the task has that status and that priority; when
\* a priority is written to Todoist as the number the connector sends (1 to
\* 4) and the item is normalized, the task has that priority.
C28_EnumRoundTrip ==
    (call["r1"] # Idle /\ call["r1"].op = "updateTask" /\ done # None)
    => /\ done.ok
       /\ Str(done.v.priority) = Get(UpdateApplied, "priority")
       /\ done.op = "notionPageToTask"
          => /\ Str(done.v.status) = Get(UpdateApplied, "status")
             /\ RawStatusName = NotionNameOf(Get(UpdateApplied, "status"))
             /\ RawPriorityName = CASE Get(UpdateApplied, "priority") = Str("urgent") -> Str("Urgent")
                                    [] Get(UpdateApplied, "priority") = Str("high") -> Str("High")
                                    [] Get(UpdateApplied, "priority") = Str("medium") -> Str("Medium")
                                    [] Get(UpdateApplied, "priority") = Str("low") -> Str("Low")
       /\ done.op = "todoistItemToTask"
          => Get(RawRecord, "priority") = CASE Get(UpdateApplied, "priority") = Str("urgent") -> Num(4)
                                            [] Get(UpdateApplied, "priority") = Str("high") -> Num(3)
                                            [] Get(UpdateApplied, "priority") = Str("medium") -> Num(2)
                                            [] Get(UpdateApplied, "priority") = Str("low") -> Num(1)

\* An update to in_progress and urgent, written to Notion and read back, has
\* given a task that is in_progress and urgent
C28_Witness ==
    /\ call["r1"] # Idle
    /\ Produced("notionPageToTask")
    /\ UpdateApplied = Obj([status |-> Str("in_progress"), priority |-> Str("urgent")])
    /\ done.v.status = "in_progress"
    /\ done.v.priority = "urgent"

\* The text an id takes inside a task id
IdText(id) ==
    CASE id.t = "string" -> id.v
      [] id = Num(5) -> "5"
      [] id = Undefined -> "undefined"

\* The raw pages and items that differ in their ids and timestamps only
PagesById == {page \in RawNotionPages : Get(page, "properties") = EmptyObj}

ItemsById == {item \in RawTodoistItems : Get(item, "content") = Str("Call") /\ ~HasKey(item, "isCompleted")}

\* C29: a task's source is its normalizer's provider and its id is that
\* provider's name, a hyphen and the record's id; so records of one provider
\* with the same id get the same task id, at whatever instant, and a page and
\* an item never get the same task id, be their ids the same.
C29_IdFromOriginAndProviderId ==
    /\ Produced("notionPageToTask")
       => /\ done.v.source = "notion"
          /\ done.v.sourceId = Get(RawRecord, "id")
          /\ done.v.id = "notion-" \o IdText(Get(RawRecord, "id"))
          /\ \A page \in PagesById :
                Get(page, "id") = Get(RawRecord, "id")
                => notionPageToTask(page, CACHE_TTL_MS).v.id = done.v.id
          /\ \A item \in ItemsById : todoistItemToTask(item, now).v.id # done.v.id
    /\ Produced("todoistItemToTask")
       => /\ done.v.source = "todoist"
          /\ done.v.sourceId = (IF Get(RawRecord, "id") \in {Undefined, Null} THEN Str("") ELSE Get(RawRecord, "id"))
          /\ done.v.id = "todoist-" \o IdText(done.v.sourceId)
          /\ \A item \in ItemsById :
                Get(item, "id") = Get(RawRecord, "id")
                => todoistItemToTask(item, CACHE_TTL_MS).v.id = done.v.id
          /\ \A page \in PagesById : notionPageToTask(page, now).v.id # done.v.id

\* An item whose id is 'n1', the id of a page, has become the task todoist-n1
C29_Witness ==
    /\ Produced("todoistItemToTask")
    /\ Get(RawRecord, "id") = Str("n1")
    /\ done.v.id = "todoist-n1"
    /\ \E page \in PagesById : Get(page, "id") = Str("n1")

\* C30: refreshTasks leaves the cache slot empty whatever was in it and
\* changes nothing else; it can run whenever a handler can; and on an empty
\* slot it changes nothing at all, so that running it twice leaves the state
\* that running it once leaves.
C30_RefreshIdempotent ==
    /\ ~ENABLED (RefreshTasks /\ cache' # Null)
    /\ ~ENABLED (RefreshTasks /\ <<now, env, client, call, conn, inbox, done, written>>'
                                    # <<now, env, client, call, conn, inbox, done, written>>)
    /\ cache = Null => ~ENABLED (RefreshTasks /\ vars' # vars)
    /\ (inbox = None /\ done = None /\ \A r \in Reqs : call[r] = Idle) => ENABLED RefreshTasks

\* A snapshot that has not expired is stored and refreshTasks is about to
\* discard it
C30_Witness ==
    /\ cache # Null
    /\ Len(cache.tasks) > 0
    /\ now - cache.timestamp < 30000
    /\ ENABLED (RefreshTasks /\ cache' = Null /\ cache' # cache)

\* The configuration error a connector of p fails with, by what of process.env is not set
ConfigErrors(p) ==
    IF p = "notion"
    THEN {Error("NOTION_API_KEY environment variable is not set"),
          Error("NOTION_DATABASE_ID environment variable is not set")}
    ELSE {Error("TODOIST_API_TOKEN environment variable is not set")}

\* A credential or identifier of provider p is missing
Unconfigured(p) ==
    IF p = "notion" THEN env.NOTION_API_KEY = "" \/ env.NOTION_DATABASE_ID = "" ELSE env.TODOIST_API_TOKEN = ""

\* C31: a connector operation called while a credential or the database
\* identifier of its provider is missing has failed with a configuration error
\* without a request, an attempt or a backoff of its own, and the sequence
\* getAllTasks returns holds no record of that provider.
C31_ConfigErrorBeforeAnyCall ==
    \A r \in Reqs : \A p \in Providers :
        Unconfigured(p)
        => /\ conn[r][p] # NoConn
              => /\ conn[r][p].st = "rejected"
                 /\ conn[r][p].err \in ConfigErrors(p)
           /\ (done # None /\ done.r = r /\ done.op = "getAllTasks")
              => /\ done.ok
                 /\ \A i \in 1..Len(done.v) : done.v[i].source # p

\* What holds: a connector operation fails so when a variable that it reads is
\* missing -- the API key or token in every operation, the database identifier
\* in fetchNotionTasks and createNotionTask
C31_ConfigErrorWhereRead ==
    \A r \in Reqs : \A p \in Providers :
        (\/ p = "notion" /\ env.NOTION_API_KEY = ""
         \/ p = "notion" /\ env.NOTION_DATABASE_ID = "" /\ call[r].op \in {"getAllTasks", "createTask"}
         \/ p = "notion" /\ env.NOTION_DATABASE_ID = "" /\ done # None /\ done.r = r
                /\ done.op \in {"getAllTasks", "createTask"}
         \/ p = "todoist" /\ env.TODOIST_API_TOKEN = "")
        => /\ conn[r][p] # NoConn
              => /\ conn[r][p].st = "rejected"
                 /\ conn[r][p].err \in ConfigErrors(p)
           /\ (done # None /\ done.r = r /\ done.op = "getAllTasks")
              => /\ done.ok
                 /\ \A i \in 1..Len(done.v) : done.v[i].source # p

\* getAllTasks has just returned Todoist's records alone: the database
\* identifier is missing and fetchNotionTasks failed on it
C31_ReadWitness ==
    /\ done # None
    /\ done.op = "getAllTasks"
    /\ env.NOTION_API_KEY # ""
    /\ env.NOTION_DATABASE_ID = ""
    /\ conn[done.r]["notion"] = Rejected(Error("NOTION_DATABASE_ID environment variable is not set"))
    /\ conn[done.r]["todoist"].st = "fulfilled"
    /\ Len(done.v) = 2

\* applyFilters has returned for the array and filter state in `inbox`
Filtered == inbox # None /\ done # None /\ done.op = "applyFilters"

\* How often the task x is in the array s
Times(s, x) == Cardinality({i \in 1..Len(s) : s[i] = x})

\* The instant a due date of the tasks above names, in ms
DueMs(task) ==
    CASE task.dueDate = Str("1970-01-01T00:00:01.000Z") -> 1000
      [] task.dueDate = Str("1970-01-01T00:00:02.000Z") -> 2000
      [] task.dueDate = Str("1970-01-01T00:00:02Z") -> 2000

\* C32: the array applyFilters returns holds each task of the input that
\* matches every filter not set to 'all' as often as the input holds it, and
\* no other task; it is empty when no task matches.
C32_ExactlyTheMatchingTasks ==
    Filtered
    => LET f == inbox.filters
           Matches(t) ==
               /\ f.source = "all" \/ t.source = f.source
               /\ f.status = "all" \/ t.status = f.status
               /\ f.priority = "all" \/ t.priority = f.priority
       IN  /\ \A i \in 1..Len(inbox.tasks) :
                Matches(inbox.tasks[i]) => Times(done.v, inbox.tasks[i]) = Times(inbox.tasks, inbox.tasks[i])
           /\ \A i \in 1..Len(done.v) :
                Matches(done.v[i]) /\ \E k \in 1..Len(inbox.tasks) : inbox.tasks[k] = done.v[i]
           /\ (\A i \in 1..Len(inbox.tasks) : ~Matches(inbox.tasks[i])) => done.v = <<>>

\* Of four tasks, three of Notion and two of these to do, applyFilters has
\* returned the one that is of Notion, to do and urgent
C32_Witness ==
    /\ Filtered
    /\ inbox.filters.source = "notion"
    /\ inbox.filters.status = "todo"
    /\ inbox.filters.priority = "urgent"
    /\ Len(inbox.tasks) = 4
    /\ Cardinality({i \in 1..4 : inbox.tasks[i].source = "notion"}) = 3
    /\ Cardinality({i \in 1..4 : inbox.tasks[i].source = "notion" /\ inbox.tasks[i].status = "todo"}) = 2
    /\ Len(done.v) = 1
    /\ done.v[1].id = "5"

C34_DueDateAscendingMissingLast ==
    (Filtered /\ inbox.filters.sortBy = "dueDate")
    => \A i, k \in 1..Len(done.v) :
        i < k => /\ done.v[i].dueDate = Undefined => done.v[k].dueDate = Undefined
                 /\ (done.v[i].dueDate # Undefined /\ done.v[k].dueDate # Undefined)
                    => DueMs(done.v[i]) <= DueMs(done.v[k])

\* Sorted by due date, an array that began with a task without a due date and
\* had the later due date ahead of the earlier has come back with the two due
\* dates ascending and the two tasks without one behind them
C34_Witness ==
    /\ Filtered
    /\ inbox.filters.sortBy = "dueDate"
    /\ Len(inbox.tasks) = 4
    /\ Len(done.v) = 4
    /\ inbox.tasks[1].dueDate = Undefined
    /\ \E i, k \in 1..4 : /\ i < k
                          /\ inbox.tasks[i].dueDate # Undefined /\ inbox.tasks[k].dueDate # Undefined
                          /\ DueMs(inbox.tasks[i]) > DueMs(inbox.tasks[k])
    /\ done.v[1].dueDate = Str("1970-01-01T00:00:01.000Z")
    /\ done.v[2].dueDate \in {Str("1970-01-01T00:00:02.000Z"), Str("1970-01-01T00:00:02Z")}
    /\ done.v[3].dueDate = Undefined
    /\ done.v[4].dueDate = Undefined

\* C35: with sortBy = priority, no task is returned ahead of a task of
\* strictly more urgent priority, in the order urgent, high, medium, low.
C35_PriorityOrder ==
    (Filtered /\ inbox.filters.sortBy = "priority")
    => \A i, k \in 1..Len(done.v) :
        i < k => \/ done.v[i].priority = "urgent"
                 \/ done.v[i].priority = "high" /\ done.v[k].priority \in {"high", "medium", "low"}
                 \/ done.v[i].priority = "medium" /\ done.v[k].priority \in {"medium", "low"}
                 \/ done.v[i].priority = "low" /\ done.v[k].priority = "low"

\* Sorted by priority, an array that held low, medium, high and urgent in this
\* order has come back as urgent, high, medium, low
C35_Witness ==
    /\ Filtered
    /\ inbox.filters.sortBy = "priority"
    /\ Len(inbox.tasks) = 4
    /\ [i \in 1..4 |-> inbox.tasks[i].priority] = <<"low", "medium", "high", "urgent">>
    /\ Len(done.v) = 4
    /\ [i \in 1..4 |-> done.v[i].priority] = <<"urgent", "high", "medium", "low">>

\* C36: a getAllTasks call that a write has overtaken -- one of its fetches had
\* settled on what the provider listed before it answered the write, and the
\* write has returned since -- does not put its snapshot into the cache slot as
\* it returns.
C36_NoSnapshotFromBeforeAWrite ==
    [][\A r \in Reqs :
        (r \in stale /\ done = None /\ done' # None /\ done'.r = r /\ done'.op = "getAllTasks")
        => cache' = cache]_vars

\* What holds: with one request at a time no getAllTasks call is in flight when
\* a write returns, and the slot stays empty from the return of a write to the
\* next getAllTasks call
C36_EmptyUntilNextCallInSequence == stale = {} /\ (written => cache = Null)

\* C37: when updateTask returns for a Todoist task and an update that set
\* status to done, the record it returns has status done.
C37_ReturnedRecordIsDone ==
    [][\A r \in Reqs :
        (/\ done = None /\ done' # None /\ done'.r = r /\ done'.op = "updateTask" /\ done'.ok
         /\ call[r].op = "updateTask"
         /\ call[r].task.source = "todoist"
         /\ "status" \in DOMAIN call[r].updates.v
         /\ call[r].updates.v.status = Str("done"))
        => done'.v.status = "done"]_vars

\* What holds: updateTodoistTask settles, after its close or reopen call has
\* returned, with the record made of the answer to its field update, whose
\* status is done exactly when that answer had isCompleted true
C37_ReturnsFieldUpdateAnswer ==
    [][\A r \in Reqs :
        (/\ conn[r]["todoist"].st = "pending"
         /\ conn[r]["todoist"].fn = "updateTodoistTask"
         /\ conn[r]["todoist"].api \in {"closeTask", "reopenTask"}
         /\ conn'[r]["todoist"].st = "fulfilled")
        => LET answer == conn[r]["todoist"].acc.task
           IN  /\ conn'[r]["todoist"].value.sourceId = answer.v.id
               /\ conn'[r]["todoist"].value.title = answer.v.content
               /\ conn'[r]["todoist"].value.status
                    = IF "isCompleted" \in DOMAIN answer.v /\ answer.v.isCompleted = Bool(TRUE)
                      THEN "done" ELSE "todo"]_vars

\* C38: a getAllTasks call that returns from its join has stored what it
\* returns, stamped with the current time, whether its fetches were fulfilled
\* or rejected -- the records of the fulfilled ones, none when both were
\* rejected; and a getAllTasks call made while a stored snapshot is under
\* 30000 ms old returns it and calls no connector, so a provider whose fetch
\* failed is not asked again.
C38_FailuresAreCachedToo ==
    [][\A r \in Reqs :
        /\ (done = None /\ done' # None /\ done'.r = r /\ done'.op = "getAllTasks" /\ call[r].op = "getAllTasks")
           => /\ cache' # Null
              /\ cache'.timestamp = now
              /\ cache'.tasks = done'.v
              /\ \A p \in Providers :
                    conn[r][p].st = "rejected" => \A i \in 1..Len(cache'.tasks) : cache'.tasks[i].source # p
              /\ (\A p \in Providers : conn[r][p].st = "rejected") => cache'.tasks = <<>>
        /\ (/\ call[r] = Idle /\ done = None /\ done' # None /\ done'.r = r /\ done'.op = "getAllTasks"
            /\ cache # Null /\ now - cache.timestamp < 30000)
           => /\ done'.v = cache.tasks
              /\ cache' = cache
              /\ \A p \in Providers : conn'[r][p] = NoConn
              /\ inbox' = None]_vars

\* With both providers configured, a getAllTasks call has just returned from
\* the cache a snapshot stored 29999 ms ago that holds Todoist's two records
\* and none of Notion, whose fetch had failed; no connector was called
C38_Witness ==
    /\ done # None
    /\ done.op = "getAllTasks"
    /\ env = [NOTION_API_KEY |-> "secret", NOTION_DATABASE_ID |-> "db", TODOIST_API_TOKEN |-> "token"]
    /\ cache # Null
    /\ now - cache.timestamp = 29999
    /\ done.v = cache.tasks
    /\ Len(cache.tasks) = 2
    /\ \A i \in 1..2 : cache.tasks[i].source = "todoist"
    /\ \A p \in Providers : conn[done.r][p] = NoConn

\* C39: on Todoist, the close or reopen call of an update starts with a retry
\* budget of its own, after the provider has answered the field update; it
\* throws only on an error that is not retried or on the fifth retry's failure;
\* when it throws, updateTodoistTask rejects with that error, and updateTask
\* then fails with it; and none of these steps changes the cache slot.
C39_CloseFailsAfterFieldUpdate ==
    [][\A r \in Reqs :
        /\ \A api \in {"closeTask", "reopenTask"} :
            /\ Issues(r, api)
               => /\ InTodoistUpdate(r, "updateTask")
                  /\ conn[r]["todoist"].wr.st = "returned"
                  /\ conn'[r]["todoist"].delay = 0
                  /\ conn'[r]["todoist"].acc.task # Undefined
            /\ (InTodoistUpdate(r, api) /\ inbox # None /\ inbox.r = r /\ inbox.p = "todoist" /\ inbox' = None
                /\ conn'[r]["todoist"].wr # None /\ conn'[r]["todoist"].wr.st = "threw")
               => /\ ~inbox.answer.ok
                  /\ conn'[r]["todoist"].wr.v = inbox.answer.v
                  /\ \/ conn[r]["todoist"].attempt = 5
                     \/ LET e == inbox.answer.v
                            status == IF e.httpStatusCode # {} THEN e.httpStatusCode ELSE e.status
                        IN  status # {429} /\ \A n \in status : n < 500
                  /\ cache' = cache
            /\ (InTodoistUpdate(r, api) /\ conn[r]["todoist"].wr # None /\ conn[r]["todoist"].wr.st = "threw"
                /\ conn'[r]["todoist"] # conn[r]["todoist"])
               => /\ conn'[r]["todoist"] = [st |-> "rejected", err |-> conn[r]["todoist"].wr.v]
                  /\ conn[r]["todoist"].acc.task # Undefined
                  /\ call'[r] = call[r]
                  /\ cache' = cache
        /\ (/\ done = None /\ done' # None /\ done'.r = r /\ done'.op = "updateTask"
            /\ call[r].op = "updateTask"
            /\ conn[r]["todoist"].st = "rejected")
           => /\ ~done'.ok
              /\ done'.err = conn[r]["todoist"].err
              /\ cache' = cache]_vars

\* With a snapshot stored, the closeTask call of an update whose field update
\* Todoist has answered has failed with 429 a sixth time, after five retries,
\* and withRetry has thrown the error
C39_Witness ==
    \E r \in Reqs :
        /\ call[r].op = "updateTask"
        /\ conn[r]["todoist"].st = "pending"
        /\ conn[r]["todoist"].fn = "updateTodoistTask"
        /\ conn[r]["todoist"].api = "closeTask"
        /\ conn[r]["todoist"].acc.task # Undefined
        /\ conn[r]["todoist"].attempt = 5
        /\ conn[r]["todoist"].wr # None
        /\ conn[r]["todoist"].wr.st = "threw"
        /\ conn[r]["todoist"].wr.v.httpStatusCode = {429}
        /\ cache # Null
        /\ Len(cache.tasks) > 0

\* C40: when the query for a page of Notion's listing has thrown, on an error
\* that is not retried or on the fifth retry's failure, fetchNotionTasks rejects
\* with that error whatever pages it has collected, and the getAllTasks call
\* that awaits it returns and stores no record of Notion.
C40_FailedPageFailsTheFetch ==
    [][\A r \in Reqs :
        /\ (/\ conn[r]["notion"].st = "pending"
            /\ conn[r]["notion"].fn = "fetchNotionTasks"
            /\ inbox # None /\ inbox.r = r /\ inbox.p = "notion" /\ inbox' = None
            /\ ~inbox.answer.ok)
           => \/ /\ conn'[r]["notion"].wr = [st |-> "threw", v |-> inbox.answer.v]
                 /\ \/ conn[r]["notion"].attempt = 5
                    \/ inbox.answer.v.status # {429} /\ \A n \in inbox.answer.v.status : n < 500
              \/ /\ conn'[r]["notion"].wr = None
                 /\ conn'[r]["notion"].attempt = conn[r]["notion"].attempt + 1
                 /\ conn'[r]["notion"].acc = conn[r]["notion"].acc
        /\ (/\ conn[r]["notion"].st = "pending"
            /\ conn[r]["notion"].fn = "fetchNotionTasks"
            /\ conn[r]["notion"].wr # None
            /\ conn[r]["notion"].wr.st = "threw"
            /\ conn'[r]["notion"] # conn[r]["notion"])
           => conn'[r]["notion"] = [st |-> "rejected", err |-> conn[r]["notion"].wr.v]
        /\ (/\ done = None /\ done' # None /\ done'.r = r /\ done'.op = "getAllTasks"
            /\ call[r].op = "getAllTasks"
            /\ conn[r]["notion"].st = "rejected")
           => /\ done'.ok
              /\ \A i \in 1..Len(done'.v) : done'.v[i].source # "notion"
              /\ cache'.tasks = done'.v]_vars

\* fetchNotionTasks has collected the page of the first query and follows its
\* cursor; the query for the second page has failed with 500 a sixth time,
\* after five retries, and withRetry has thrown the error
C40_Witness ==
    \E r \in Reqs :
        /\ call[r].op = "getAllTasks"
        /\ conn[r]["notion"].st = "pending"
        /\ conn[r]["notion"].fn = "fetchNotionTasks"
        /\ "start_cursor" \in DOMAIN conn[r]["notion"].arg.v
        /\ Len(conn[r]["notion"].acc) > 0
        /\ conn[r]["notion"].attempt = 5
        /\ conn[r]["notion"].wr # None
        /\ conn[r]["notion"].wr.st = "threw"
        /\ conn[r]["notion"].wr.v.status = {500}

====
